---- MODULE Spec2Model ----
(***************************************************************************)
(* State-machine model of the clinical to-do application.                  *)
(*                                                                         *)
(*  - App (auth gate): user, loading and the screen it renders.            *)
(*  - The `todos` collection of the document store, shared by all users.   *)
(*  - Dashboard: the local todos list fed by the onSnapshot listener, the  *)
(*    edit modal, the Referral Safety Net modal, the toasts with their     *)
(*    Undo closures and the calendar-manager modal with the Google popup.  *)
(*                                                                         *)
(* A document is a record with the fields of the Todo interface.  Optional *)
(* fields that are absent (status of a legacy document, notes, sentVia)    *)
(* are the empty string, which is what the code's `||` tests treat them as.*)
(* A nullable value (editTask, taskToComplete, a toast's undoAction) is a  *)
(* sequence of length 0 (null) or 1.  editTask and taskToComplete hold a   *)
(* Todo of which the code reads nothing but the id (todo.id in handleSave  *)
(* and onDelete, taskToComplete.id): they are modelled by that id.  The    *)
(* edit modal's form holds the whole record.                               *)
(***************************************************************************)
EXTENDS Integers, Sequences, FiniteSets, TLC

VARIABLES
    user,               \* App: useState<User | null>
    loading,            \* App: useState(true)
    view,               \* what App's last render returned
    authSeen,           \* history: the onAuthStateChanged callback has run
    store,              \* the todos collection: document id -> document
    nextId,             \* next document id addDoc generates
    todos,              \* Dashboard: useState<Todo[]>
    pendingSnap,        \* the listener's first snapshot is still to come
    editTask,           \* Dashboard: useState<Todo | null>, the id it is read for
    form,               \* EditTaskModal: useState(todo || {})
    isSafetyModalOpen,  \* Dashboard: useState(false)
    taskToComplete,     \* Dashboard: useState<Todo | null>, the id it is read for
    toasts,             \* Dashboard: useState<ToastMsg[]>, the toasts with an Undo button
    isManagerOpen,      \* Dashboard: useState(false)
    rotas,              \* Dashboard: useState<RotaSystem>([DEFAULT_WEEK])
    anchorDate,         \* Dashboard: useState<string>('')
    dueDate,            \* Dashboard: useState(''), the add form's date
    dueTime,            \* Dashboard: useState(''), the add form's time
    searchQuery,        \* Dashboard: useState('')
    now,                \* Dashboard: useState(new Date()), in seconds
    selectedTasks,      \* Dashboard: useState<string[]>([])
    today,              \* the calendar day new Date() falls on
    shiftDate,          \* history: the date dueTime was computed for by getShiftEndTime
    input,              \* Dashboard: useState(''), the description field
    patientInput,       \* Dashboard: useState('')
    category,           \* Dashboard: useState('General')
    priority,           \* Dashboard: useState('medium')
    categories,         \* Dashboard: useState(['General'])
    slashCommands,      \* Dashboard: useState(DEFAULT_SLASH_COMMANDS)
    referralMethods,    \* Dashboard: useState(DEFAULT_REFERRAL_METHODS)
    userDocs,           \* the users collection: uid -> document (field -> value)
    googleEvents,       \* Dashboard: useState<CalendarEvent[]>([])
    outlookEvents,      \* Dashboard: useState<CalendarEvent[]>([])
    googleConnected,    \* Dashboard: useState(false)
    outlookConnected,   \* Dashboard: useState(false)
    outlookExpired,     \* Dashboard: useState(false)
    externalCalendars,  \* Dashboard: useState<ExternalCalendar[]>([])
    googleLoads,        \* loadGoogleEvents calls awaiting their response
    outlookLoads,       \* loadOutlookData calls awaiting a response
    localStorage,       \* window.localStorage: <<key, uid>> -> value
    googleCalendar,     \* the events of the Google account's primary calendar
    outlookCalendars,   \* the calendars of the Microsoft account, with their events
    mode,               \* Login: useState<AuthMode>('signin')
    loginLoading,       \* Login: useState(false), its loading flag
    error,              \* Login: useState('')
    password,           \* Login: useState('')
    confirmPassword,    \* Login: useState('')
    pwdValid,           \* Login: useState({length, upper, lower, number, special})
    resetLink,          \* the page URL holds mode=resetPassword and an oobCode
    locationHash,       \* the page URL's hash holds an access_token
    authRequest         \* Login: the handleEmailAuth call awaiting Firebase Auth

vars == <<user, loading, view, authSeen, store, nextId, todos, pendingSnap,
          editTask, form, isSafetyModalOpen, taskToComplete, toasts,
          isManagerOpen, rotas, anchorDate, dueDate, dueTime, searchQuery, now,
          selectedTasks, today, shiftDate, input, patientInput, category, priority, categories,
          slashCommands, referralMethods, userDocs, googleEvents, outlookEvents,
          googleConnected, outlookConnected, outlookExpired, externalCalendars,
          googleLoads, outlookLoads, localStorage, googleCalendar,
          outlookCalendars, mode, loginLoading, error, password, confirmPassword,
          pwdValid, resetLink, locationHash, authRequest>>

appVars == <<user, loading, view, authSeen>>
modalVars == <<editTask, form, isSafetyModalOpen, taskToComplete>>
calVars == <<isManagerOpen>>
formVars == <<dueDate, dueTime, shiftDate>>
rotaVars == <<rotas, anchorDate, today>>
viewVars == <<searchQuery, now, selectedTasks>>
inputVars == <<input, patientInput, category, priority>>
customVars == <<categories, slashCommands, referralMethods>>
extVars == <<googleEvents, outlookEvents, googleConnected, outlookConnected,
             outlookExpired, externalCalendars, googleLoads, outlookLoads>>
remoteVars == <<googleCalendar, outlookCalendars>>
loginVars == <<mode, loginLoading, error, password, confirmPassword, pwdValid,
               authRequest>>
urlVars == <<resetLink, locationHash>>

\* what the handlers of the task list leave alone
restVars == <<inputVars, customVars, userDocs, extVars, localStorage, remoteVars,
              loginVars, urlVars>>

(***************************************************************************)
(* Bounds                                                                  *)
(***************************************************************************)
MaxTasks == 1
MaxDocs == 2
MaxToasts == 1

Users == {"u1", "u2"}
NoUser == "null"
Categories == {"General", "Referral"}
Methods == {"NHS Email"}
Statuses == {"todo", "in-progress", "waiting", "done"}

(***************************************************************************)
(* Values                                                                  *)
(*                                                                         *)
(* A text (description, patient name, search query) is a sequence of       *)
(* characters.  A date string 'yyyy-MM-dd' is the number of its day, day 0 *)
(* being a Monday, and the empty date string is NoDate.  A time string is  *)
(* 'HH:mm' or empty.  An instant is a number of seconds since day 0, 00:00.*)
(***************************************************************************)
NoDate == -1

DEFAULT_DAY == [start |-> "09:00", end |-> "17:30", isOff |-> FALSE]

DEFAULT_WEEK ==
    [monday |-> DEFAULT_DAY, tuesday |-> DEFAULT_DAY, wednesday |-> DEFAULT_DAY,
     thursday |-> DEFAULT_DAY, friday |-> DEFAULT_DAY,
     saturday |-> [start |-> "09:00", end |-> "13:00", isOff |-> FALSE],
     sunday |-> [start |-> "00:00", end |-> "00:00", isOff |-> TRUE]]

DEFAULT_SLASH_COMMANDS ==
    <<[trigger |-> <<"/", "v", "f">>,
       expansion |-> <<"V", "i", "s", "u", "a", "l", " ", "F", "i", "e", "l", "d", "s", " ", "C", "h", "e", "c", "k">>],
      [trigger |-> <<"/", "o", "c", "t">>,
       expansion |-> <<"O", "C", "T", " ", "S", "c", "a", "n", " ", "R", "e", "v", "i", "e", "w">>],
      [trigger |-> <<"/", "c", "l">>,
       expansion |-> <<"C", "o", "n", "t", "a", "c", "t", " ", "L", "e", "n", "s", " ", "T", "e", "a", "c", "h">>],
      [trigger |-> <<"/", "d", "i", "l">>,
       expansion |-> <<"D", "i", "l", "a", "t", "e", "d", " ", "F", "u", "n", "d", "u", "s", " ", "E", "x", "a", "m">>],
      [trigger |-> <<"/", "c", "a", "t">>,
       expansion |-> <<"C", "a", "t", "a", "r", "a", "c", "t", " ", "R", "e", "f", "e", "r", "r", "a", "l">>]>>

DEFAULT_REFERRAL_METHODS ==
    <<[id |-> "egos", label |-> "e-GOS (Portal)"],
      [id |-> "email", label |-> "NHS Email"],
      [id |-> "post", label |-> "Post (Tracked)"],
      [id |-> "urgent", label |-> "Urgent Referral (Fax/Phone)"],
      [id |-> "pat", label |-> "Given to Patient"]>>

(***************************************************************************)
(* window.localStorage, its keys written `name_${user.uid}`                *)
(***************************************************************************)
\* getItem: the value, or none (null)
getItem(ls, name, uid) ==
    IF <<name, uid>> \in DOMAIN ls THEN <<ls[<<name, uid>>]>> ELSE <<>>

setItem(ls, name, uid, value) ==
    [k \in DOMAIN ls \cup {<<name, uid>>} |->
        IF k = <<name, uid>> THEN value ELSE ls[k]]

removeItem(ls, name, uid) == [k \in DOMAIN ls \ {<<name, uid>>} |-> ls[k]]

(***************************************************************************)
(* App                                                                     *)
(***************************************************************************)
\* the loading flag ignored at render
AppRenderNoLoading(u, l) ==
    IF u # NoUser THEN "dashboard" ELSE "login"

AppRender(u, l) ==
    IF l THEN "loading" ELSE IF u # NoUser THEN "dashboard" ELSE "login"

(***************************************************************************)
(* Document store operations (firebase/firestore as the code uses it)      *)
(***************************************************************************)
addDoc(s, id, data) == [x \in DOMAIN s \cup {id} |-> IF x = id THEN data ELSE s[x]]

setDoc(s, id, data) == [x \in DOMAIN s \cup {id} |-> IF x = id THEN data ELSE s[x]]

deleteDoc(s, id) == [x \in DOMAIN s \ {id} |-> s[x]]

\* updateDoc merges the given fields into an existing document and fails,
\* writing nothing, when the document does not exist.
updateDoc(s, id, upd) ==
    IF id \in DOMAIN s
    THEN [s EXCEPT ![id] = [f \in DOMAIN s[id] |->
                               IF f \in DOMAIN upd THEN upd[f] ELSE s[id][f]]]
    ELSE s

(***************************************************************************)
(* The todos listener: query where uid == user.uid, map, sort, setTodos    *)
(***************************************************************************)
compare(a, b) ==
    IF a.priority = "high" /\ b.priority # "high" /\ ~a.completed THEN -1
    ELSE IF b.priority = "high" /\ a.priority # "high" /\ ~b.completed THEN 1
    ELSE b.createdAt - a.createdAt

RECURSIVE InsertSorted(_, _)
InsertSorted(sorted, t) ==
    IF sorted = <<>> THEN <<t>>
    ELSE IF compare(sorted[Len(sorted)], t) > 0
         THEN Append(InsertSorted(SubSeq(sorted, 1, Len(sorted) - 1), t),
                     sorted[Len(sorted)])
         ELSE Append(sorted, t)

RECURSIVE SortTasks(_)
SortTasks(tasks) ==
    IF tasks = <<>> THEN <<>>
    ELSE InsertSorted(SortTasks(SubSeq(tasks, 1, Len(tasks) - 1)), tasks[Len(tasks)])

\* snap.docs for the query, in document-id order, mapped to {...d.data(), id: d.id}
RECURSIVE QueryDocs(_, _, _)
QueryDocs(s, uid, from) ==
    IF \A d \in DOMAIN s : d < from THEN <<>>
    ELSE IF from \in DOMAIN s /\ s[from].uid = uid
         THEN <<[s[from] EXCEPT !.id = from]>> \o QueryDocs(s, uid, from + 1)
         ELSE QueryDocs(s, uid, from + 1)

SnapshotTodos(s, uid) == SortTasks(QueryDocs(s, uid, 1))

\* A write made by this client reaches its own listener at once unless the
\* listener is still waiting for its first snapshot.
Refresh(s) == IF pendingSnap THEN todos ELSE SnapshotTodos(s, user)

(***************************************************************************)
(* Initial state: App constructed, nothing rendered but the loading screen *)
(***************************************************************************)
DashboardFresh ==
    /\ todos' = <<>>
    /\ pendingSnap' = TRUE
    /\ editTask' = <<>>
    /\ form' = <<>>
    /\ isSafetyModalOpen' = FALSE
    /\ taskToComplete' = <<>>
    /\ toasts' = <<>>
    /\ isManagerOpen' = FALSE
    /\ rotas' = <<DEFAULT_WEEK>>
    /\ anchorDate' = NoDate
    /\ dueDate' = NoDate
    /\ dueTime' = ""
    /\ shiftDate' = NoDate
    /\ searchQuery' = <<>>
    /\ selectedTasks' = <<>>
    /\ input' = <<>>
    /\ patientInput' = <<>>
    /\ category' = "General"
    /\ priority' = "medium"
    /\ categories' = <<"General">>
    /\ slashCommands' = DEFAULT_SLASH_COMMANDS
    /\ referralMethods' = DEFAULT_REFERRAL_METHODS

\* The [user] effect of the Dashboard for user u: it starts a load for each
\* stored token and takes the access token the Microsoft redirect left in the
\* URL.  A load is awaited by the Dashboard that started it; fresh tells that
\* this Dashboard has just been mounted, with the initial calendar state.
CalendarStartup(u, fresh) ==
    LET intent == getItem(localStorage, "outlook_connected", u) = <<"true">>
        oToken == getItem(localStorage, "outlook_token", u)
        gLoads == IF getItem(localStorage, "google_token", u) # <<>>
                  THEN {[uid |-> u]} ELSE {}
        oLoads == IF (intent /\ oToken # <<>>) \/ locationHash
                  THEN {[uid |-> u, phase |-> "calendars", calendars |-> <<>>]}
                  ELSE {}
    IN /\ googleEvents' = IF fresh THEN <<>> ELSE googleEvents
       /\ outlookEvents' = IF fresh THEN <<>> ELSE outlookEvents
       /\ googleConnected' = IF fresh THEN FALSE ELSE googleConnected
       /\ externalCalendars' = IF fresh THEN <<>> ELSE externalCalendars
       /\ outlookConnected' =
              IF intent /\ oToken = <<>> THEN TRUE
              ELSE IF fresh THEN FALSE ELSE outlookConnected
       /\ outlookExpired' =
              IF intent /\ oToken = <<>> THEN TRUE
              ELSE IF fresh THEN FALSE ELSE outlookExpired
       /\ googleLoads' = (IF fresh THEN {} ELSE googleLoads) \cup gLoads
       /\ outlookLoads' = (IF fresh THEN {} ELSE outlookLoads) \cup oLoads
       /\ localStorage' =
              IF locationHash
              THEN setItem(setItem(localStorage, "outlook_token", u, "token"),
                           "outlook_connected", u, "true")
              ELSE localStorage
       /\ locationHash' = FALSE

\* no Dashboard is mounted: nothing of its calendar state is left
CalendarUnmounted ==
    /\ googleEvents' = <<>>
    /\ outlookEvents' = <<>>
    /\ googleConnected' = FALSE
    /\ outlookConnected' = FALSE
    /\ outlookExpired' = FALSE
    /\ externalCalendars' = <<>>
    /\ googleLoads' = {}
    /\ outlookLoads' = {}
    /\ UNCHANGED <<localStorage, locationHash>>

\* Login as it is mounted: its mount effect reads the reset link of the URL
LoginFresh ==
    /\ mode' = IF resetLink THEN "reset" ELSE "signin"
    /\ loginLoading' = FALSE
    /\ error' = ""
    /\ password' = <<>>
    /\ confirmPassword' = <<>>
    /\ pwdValid' = [length |-> FALSE, upper |-> FALSE, lower |-> FALSE,
                    number |-> FALSE, special |-> FALSE]
    /\ authRequest' = <<>>

\* the add form, the customization, the calendars, the Login form and the
\* stores behind them as they are before anything was entered or saved
InitRest ==
    /\ input = <<>>
    /\ patientInput = <<>>
    /\ category = "General"
    /\ priority = "medium"
    /\ categories = <<"General">>
    /\ slashCommands = DEFAULT_SLASH_COMMANDS
    /\ referralMethods = DEFAULT_REFERRAL_METHODS
    /\ userDocs = << >>
    /\ googleEvents = <<>>
    /\ outlookEvents = <<>>
    /\ googleConnected = FALSE
    /\ outlookConnected = FALSE
    /\ outlookExpired = FALSE
    /\ externalCalendars = <<>>
    /\ googleLoads = {}
    /\ outlookLoads = {}
    /\ localStorage = << >>
    /\ googleCalendar = <<>>
    /\ outlookCalendars = << >>
    /\ mode = "signin"
    /\ loginLoading = FALSE
    /\ error = ""
    /\ password = <<>>
    /\ confirmPassword = <<>>
    /\ pwdValid = [length |-> FALSE, upper |-> FALSE, lower |-> FALSE,
                   number |-> FALSE, special |-> FALSE]
    /\ resetLink = FALSE
    /\ locationHash = FALSE
    /\ authRequest = <<>>

Init ==
    /\ user = NoUser
    /\ loading = TRUE
    /\ view = AppRender(NoUser, TRUE)
    /\ authSeen = FALSE
    /\ store = << >>
    /\ nextId = 1
    /\ todos = <<>>
    /\ pendingSnap = TRUE
    /\ editTask = <<>>
    /\ form = <<>>
    /\ isSafetyModalOpen = FALSE
    /\ taskToComplete = <<>>
    /\ toasts = <<>>
    /\ isManagerOpen = FALSE
    /\ rotas = <<DEFAULT_WEEK>>
    /\ anchorDate = NoDate
    /\ dueDate = NoDate
    /\ dueTime = ""
    /\ searchQuery = <<>>
    /\ selectedTasks = <<>>
    /\ now = 0
    /\ today = 0
    /\ shiftDate = NoDate
    /\ InitRest

(***************************************************************************)
(* App: the onAuthStateChanged callback and the render that follows it     *)
(***************************************************************************)
\* setUser(currentUser); setLoading(false); then App re-renders.  A Dashboard
\* that stays mounted keeps its state, and its [user] effect re-subscribes
\* the listener when the user changed.
onAuthStateChanged(u) ==
    /\ user' = u
    /\ loading' = FALSE
    /\ authSeen' = TRUE
    /\ view' = AppRender(u, FALSE)
    /\ IF view = "dashboard" /\ u # NoUser
       THEN /\ pendingSnap' = (pendingSnap \/ u # user)
            /\ UNCHANGED <<todos, editTask, form, isSafetyModalOpen,
                           taskToComplete, toasts, isManagerOpen, rotas,
                           anchorDate, dueDate, dueTime, shiftDate, searchQuery,
                           selectedTasks, inputVars, customVars>>
            /\ IF u # user THEN CalendarStartup(u, FALSE)
               ELSE UNCHANGED <<extVars, localStorage, locationHash>>
       ELSE /\ DashboardFresh
            /\ IF u # NoUser THEN CalendarStartup(u, TRUE) ELSE CalendarUnmounted
    /\ IF view = "login" /\ u = NoUser THEN UNCHANGED loginVars ELSE LoginFresh
    /\ UNCHANGED resetLink

\* the first callback, with the persisted session or none
AuthInit(u) ==
    /\ ~authSeen
    /\ onAuthStateChanged(u)
    /\ UNCHANGED <<store, nextId, now, today, userDocs, remoteVars>>

\* a successful sign-in from the Login form
LoginSignIn(u) ==
    /\ view = "login"
    /\ u # NoUser
    /\ onAuthStateChanged(u)
    /\ UNCHANGED <<store, nextId, now, today, userDocs, remoteVars>>

\* the elements of the page below the modals can be clicked
MainPage ==
    /\ view = "dashboard"
    /\ editTask = <<>>
    /\ ~isSafetyModalOpen
    /\ ~isManagerOpen

handleSignOut ==
    /\ MainPage
    /\ onAuthStateChanged(NoUser)
    /\ UNCHANGED <<store, nextId, now, today, userDocs, remoteVars>>

(***************************************************************************)
(* Dashboard: listener                                                     *)
(***************************************************************************)
Snapshot ==
    /\ view = "dashboard"
    /\ pendingSnap
    /\ todos' = SnapshotTodos(store, user)
    /\ pendingSnap' = FALSE
    /\ UNCHANGED <<appVars, restVars, store, nextId, modalVars, toasts, calVars,
                   formVars, rotaVars, viewVars>>

(***************************************************************************)
(* Dashboard: toasts                                                       *)
(***************************************************************************)
IsReferral(cat) == cat = "Referral" \/ cat = "Referrals"

\* A toast without undoAction only displays its message: no handler reads it,
\* and it is left out of the modelled list.
addToast(ts, message, type, undoAction) ==
    IF undoAction = <<>> THEN ts
    ELSE Append(ts, [message |-> message, type |-> type, undoAction |-> undoAction])

\* the setTimeout of addToast: toasts leave in the order they came
ToastExpire ==
    /\ view = "dashboard"
    /\ toasts # <<>>
    /\ toasts' = Tail(toasts)
    /\ UNCHANGED <<appVars, restVars, store, nextId, todos, pendingSnap, modalVars, calVars,
                   formVars, rotaVars, viewVars>>

(***************************************************************************)
(* Dashboard: task handlers                                                *)
(***************************************************************************)
NewTask(text, name, prio, cat) ==
    [id |-> nextId, text |-> text, patientName |-> name,
     completed |-> FALSE, status |-> "todo", priority |-> prio,
     uid |-> user, category |-> cat, dueDate |-> dueDate,
     dueTime |-> dueTime, notes |-> "", sentVia |-> "", createdAt |-> nextId]

\* String.prototype.trim: leading and trailing spaces removed
RECURSIVE trim(_)
trim(str) ==
    IF str = <<>> THEN <<>>
    ELSE IF Head(str) = " " THEN trim(Tail(str))
    ELSE IF str[Len(str)] = " " THEN trim(SubSeq(str, 1, Len(str) - 1))
    ELSE str

\* submitForm with the blank check made on the raw values, not the trimmed ones
submitFormNoTrim(cap, text, name, prio, cat) ==
    /\ MainPage /\ nextId <= cap
    /\ ~(text = <<>> /\ name = <<>>)
    /\ store' = addDoc(store, nextId, NewTask(text, name, prio, cat))
    /\ nextId' = nextId + 1 /\ todos' = Refresh(store')
    /\ input' = <<>> /\ patientInput' = <<>>
    /\ dueDate' = NoDate /\ dueTime' = "" /\ shiftDate' = NoDate
    /\ priority' = prio /\ category' = cat
    /\ UNCHANGED <<appVars, pendingSnap, modalVars, toasts, calVars, rotaVars,
                   viewVars, customVars, userDocs, extVars, localStorage,
                   remoteVars, loginVars, urlVars>>

\* addTodo on a form whose description, patient name, priority and category
\* fields hold the given values; serverTimestamp() grows with every document
\* created, as nextId does.  cap bounds the documents created.
submitForm(cap, text, name, prio, cat) ==
    /\ MainPage
    /\ nextId <= cap
    /\ ~(trim(text) = <<>> /\ trim(name) = <<>>)
    /\ store' = addDoc(store, nextId, NewTask(text, name, prio, cat))
    /\ nextId' = nextId + 1
    /\ todos' = Refresh(store')
    /\ input' = <<>>
    /\ patientInput' = <<>>
    /\ dueDate' = NoDate
    /\ dueTime' = ""
    /\ shiftDate' = NoDate
    /\ priority' = prio
    /\ category' = cat
    /\ UNCHANGED <<appVars, pendingSnap, modalVars, toasts, calVars, rotaVars,
                   viewVars, customVars, userDocs, extVars, localStorage,
                   remoteVars, loginVars, urlVars>>

\* submitting the form as the state holds it
addTodo(cap) == submitForm(cap, input, patientInput, priority, category)

\* the cycle without its waiting step
NextStatusSkipWaiting(status) ==
    CASE status = "todo" -> "in-progress"
      [] status = "" -> "in-progress"
      [] status = "in-progress" -> "done"
      [] status = "waiting" -> "done"
      [] status = "done" -> "todo"

\* map[todo.status || 'todo']
NextStatus(status) ==
    CASE status = "todo" -> "in-progress"
      [] status = "" -> "in-progress"
      [] status = "in-progress" -> "waiting"
      [] status = "waiting" -> "done"
      [] status = "done" -> "todo"

OpenSafetyModal(todo) ==
    /\ taskToComplete' = <<todo.id>>
    /\ isSafetyModalOpen' = TRUE
    /\ UNCHANGED <<appVars, restVars, store, nextId, todos, pendingSnap, editTask, form,
                   toasts, calVars, formVars, rotaVars, viewVars>>

WriteTask(id, upd) ==
    /\ store' = updateDoc(store, id, upd)
    /\ todos' = Refresh(store')
    /\ UNCHANGED <<appVars, restVars, nextId, pendingSnap, modalVars, toasts, calVars,
                   formVars, rotaVars, viewVars>>

\* updateStatus without the safety-net check
updateStatusUnchecked(todo) ==
    /\ MainPage
    /\ LET newStatus == NextStatus(todo.status)
       IN WriteTask(todo.id, [status |-> newStatus, completed |-> (newStatus = "done")])

updateStatus(todo) ==
    /\ MainPage
    /\ LET newStatus == NextStatus(todo.status)
       IN IF newStatus = "done" /\ IsReferral(todo.category)
          THEN OpenSafetyModal(todo)
          ELSE WriteTask(todo.id, [status |-> newStatus,
                                   completed |-> (newStatus = "done")])

\* toggleComplete writing the completed flag alone
toggleCompleteFlagOnly(todo) ==
    /\ MainPage
    /\ LET newCompleted == ~todo.completed
       IN IF newCompleted /\ IsReferral(todo.category)
          THEN OpenSafetyModal(todo)
          ELSE WriteTask(todo.id, [completed |-> newCompleted])

toggleComplete(todo) ==
    /\ MainPage
    /\ LET newCompleted == ~todo.completed
       IN IF newCompleted /\ IsReferral(todo.category)
          THEN OpenSafetyModal(todo)
          ELSE WriteTask(todo.id, [completed |-> newCompleted,
                                   status |-> IF newCompleted THEN "done" ELSE "todo"])

\* todos.find(t => t.id === taskId): the first match, or none
FindTodo(id) ==
    LET hits == {i \in 1..Len(todos) : todos[i].id = id}
    IN IF hits = {} THEN <<>>
       ELSE <<todos[CHOOSE i \in hits : \A j \in hits : i <= j]>>

handleDrop(taskId, newStatus) ==
    /\ MainPage
    /\ LET task == FindTodo(taskId)
       IN IF newStatus = "done" /\ task # <<>> /\ IsReferral(task[1].category)
          THEN OpenSafetyModal(task[1])
          ELSE WriteTask(taskId, [status |-> newStatus,
                                  completed |-> (newStatus = "done")])

confirmReferralCompletion(method) ==
    /\ view = "dashboard"
    /\ isSafetyModalOpen
    /\ taskToComplete # <<>>
    /\ store' = updateDoc(store, taskToComplete[1],
                          [status |-> "done", completed |-> TRUE, sentVia |-> method])
    /\ todos' = Refresh(store')
    /\ toasts' = addToast(toasts, "Referral marked sent via", "success", <<>>)
    /\ isSafetyModalOpen' = FALSE
    /\ taskToComplete' = <<>>
    /\ UNCHANGED <<appVars, restVars, nextId, pendingSnap, editTask, form, calVars,
                   formVars, rotaVars, viewVars>>

\* onClose of the ReferralSafetyModal: "Cancel (Don't Close)".  The code leaves
\* taskToComplete as it is; nothing reads it before the modal is opened again,
\* which sets it, so a closed modal's taskToComplete is kept as null.
SafetyModalClose ==
    /\ view = "dashboard"
    /\ isSafetyModalOpen
    /\ isSafetyModalOpen' = FALSE
    /\ taskToComplete' = <<>>
    /\ UNCHANGED <<appVars, restVars, store, nextId, todos, pendingSnap, editTask, form,
                   toasts, calVars, formVars, rotaVars, viewVars>>

\* deleteTodo as TaskItem's bin button and the edit modal's Delete call it
deleteTodo(id) ==
    LET taskToDelete == FindTodo(id)
    IN IF taskToDelete = <<>>
       THEN UNCHANGED <<store, todos, toasts>>
       ELSE /\ Len(toasts) < MaxToasts
            /\ store' = deleteDoc(store, id)
            /\ todos' = Refresh(store')
            /\ toasts' = addToast(toasts, "Task deleted", "info",
                                  <<[id |-> id, taskToDelete |-> taskToDelete[1]]>>)

TaskItemDelete(todo) ==
    /\ MainPage
    /\ deleteTodo(todo.id)
    /\ UNCHANGED <<appVars, restVars, nextId, pendingSnap, modalVars, calVars,
                   formVars, rotaVars, viewVars>>

\* an undo that re-creates the task as a new, open one
UndoAsNew(k) ==
    /\ view = "dashboard"
    /\ k \in 1..Len(toasts)
    /\ toasts[k].undoAction # <<>>
    /\ LET u == toasts[k].undoAction[1]
       IN store' = setDoc(store, u.id, [u.taskToDelete EXCEPT !.completed = FALSE,
                                                             !.status = "todo"])
    /\ todos' = Refresh(store')
    /\ toasts' = addToast(toasts, "Task restored", "success", <<>>)
    /\ UNCHANGED <<appVars, restVars, nextId, pendingSnap, modalVars, calVars,
                   formVars, rotaVars, viewVars>>

\* the undoAction closure of a "Task deleted" toast
Undo(k) ==
    /\ view = "dashboard"
    /\ k \in 1..Len(toasts)
    /\ toasts[k].undoAction # <<>>
    /\ LET u == toasts[k].undoAction[1]
       IN store' = setDoc(store, u.id, u.taskToDelete)
    /\ todos' = Refresh(store')
    /\ toasts' = addToast(toasts, "Task restored", "success", <<>>)
    /\ UNCHANGED <<appVars, restVars, nextId, pendingSnap, modalVars, calVars,
                   formVars, rotaVars, viewVars>>

(***************************************************************************)
(* Edit modal                                                              *)
(* The modal's form is read only while the modal is open, and opening it   *)
(* sets form to the task: a closed modal's form is kept as null.           *)
(***************************************************************************)
openEditModal(todo) ==
    /\ MainPage
    /\ editTask' = <<todo.id>>
    /\ form' = <<todo>>
    /\ UNCHANGED <<appVars, restVars, store, nextId, todos, pendingSnap, isSafetyModalOpen,
                   taskToComplete, toasts, calVars,
                   formVars, rotaVars, viewVars>>

EditModalOpen == view = "dashboard" /\ editTask # <<>>

\* the category <select>: setForm({...form, category})
EditSetCategory(c) ==
    /\ EditModalOpen
    /\ form[1].category # c
    /\ form' = <<[form[1] EXCEPT !.category = c]>>
    /\ UNCHANGED <<appVars, restVars, store, nextId, todos, pendingSnap, editTask,
                   isSafetyModalOpen, taskToComplete, toasts, calVars,
                   formVars, rotaVars, viewVars>>

saveTaskChanges(id, updates) == store' = updateDoc(store, id, updates)

\* handleSave: onSave(todo.id, form); onClose()
EditSave ==
    /\ EditModalOpen
    /\ saveTaskChanges(editTask[1], form[1])
    /\ todos' = Refresh(store')
    /\ editTask' = <<>>
    /\ form' = <<>>
    /\ UNCHANGED <<appVars, restVars, nextId, pendingSnap, isSafetyModalOpen,
                   taskToComplete, toasts, calVars,
                   formVars, rotaVars, viewVars>>

\* the Delete button: onDelete(todo.id); onClose()
EditDelete ==
    /\ EditModalOpen
    /\ deleteTodo(editTask[1])
    /\ editTask' = <<>>
    /\ form' = <<>>
    /\ UNCHANGED <<appVars, restVars, nextId, pendingSnap, isSafetyModalOpen,
                   taskToComplete, calVars,
                   formVars, rotaVars, viewVars>>

EditClose ==
    /\ EditModalOpen
    /\ editTask' = <<>>
    /\ form' = <<>>
    /\ UNCHANGED <<appVars, restVars, store, nextId, todos, pendingSnap,
                   isSafetyModalOpen, taskToComplete, toasts, calVars,
                   formVars, rotaVars, viewVars>>

(***************************************************************************)
(* Calendar manager: connecting Google signs in with a popup               *)
(***************************************************************************)
ManagerOpen ==
    /\ MainPage
    /\ isManagerOpen' = TRUE
    /\ UNCHANGED <<appVars, restVars, store, nextId, todos, pendingSnap, modalVars, toasts,
                   formVars, rotaVars, viewVars>>

ManagerClose ==
    /\ view = "dashboard"
    /\ isManagerOpen
    /\ isManagerOpen' = FALSE
    /\ UNCHANGED <<appVars, restVars, store, nextId, todos, pendingSnap, modalVars, toasts,
                   formVars, rotaVars, viewVars>>

\* handleConnectGoogle: signInWithPopup(auth, provider) signs in the Google
\* account g, which becomes auth.currentUser, and the auth-state callback
\* runs with it.  The handler then stores the access token under the uid of
\* the user it was rendered with and starts loadGoogleEvents.  A popup that
\* is closed or fails only raises an alert.
handleConnectGoogle(g) ==
    /\ view = "dashboard"
    /\ isManagerOpen
    /\ ~googleConnected
    /\ user' = g
    /\ UNCHANGED <<loading, view, authSeen>>
    /\ pendingSnap' = (pendingSnap \/ g # user)
    /\ LET intent == getItem(localStorage, "outlook_connected", g) = <<"true">>
           oToken == getItem(localStorage, "outlook_token", g)
           switched == g # user
       IN /\ localStorage' = setItem(localStorage, "google_token", user, "token")
          /\ googleLoads' = googleLoads \cup {[uid |-> user]}
                \cup (IF switched /\ getItem(localStorage, "google_token", g) # <<>>
                      THEN {[uid |-> g]} ELSE {})
          /\ outlookLoads' = outlookLoads
                \cup (IF switched /\ intent /\ oToken # <<>>
                      THEN {[uid |-> g, phase |-> "calendars", calendars |-> <<>>]}
                      ELSE {})
          /\ outlookConnected' = (outlookConnected \/ (switched /\ intent /\ oToken = <<>>))
          /\ outlookExpired' = (outlookExpired \/ (switched /\ intent /\ oToken = <<>>))
    /\ UNCHANGED <<store, nextId, todos, modalVars, toasts, calVars, formVars,
                   rotaVars, viewVars, inputVars, customVars, userDocs,
                   googleEvents, outlookEvents, googleConnected,
                   externalCalendars, remoteVars, loginVars, urlVars>>

(***************************************************************************)
(* Specifications                                                          *)
(*                                                                         *)
(* Spec: one user's session with every task handler, the Referral Safety   *)
(* Net and the edit modal.                                                 *)
(* SpecAuth: two accounts sharing the store, with sign-in, sign-out and    *)
(* the account switch of handleConnectGoogle, and the handlers that        *)
(* create, complete, delete and restore tasks.                             *)
(***************************************************************************)
Next ==
    \/ \E u \in {"u1", NoUser} : AuthInit(u)
    \/ LoginSignIn("u1")
    \/ handleSignOut
    \/ Snapshot
    \/ ToastExpire
    \/ \E c \in Categories : submitForm(MaxTasks, <<"v", "f">>, <<>>, "medium", c)
    \/ \E i \in 1..Len(todos) : updateStatus(todos[i])
    \/ \E i \in 1..Len(todos) : toggleComplete(todos[i])
    \/ \E i \in 1..Len(todos), ns \in Statuses : handleDrop(todos[i].id, ns)
    \/ \E m \in Methods : confirmReferralCompletion(m)
    \/ SafetyModalClose
    \/ \E i \in 1..Len(todos) : TaskItemDelete(todos[i])
    \/ \E k \in 1..Len(toasts) : Undo(k)
    \/ \E i \in 1..Len(todos) : openEditModal(todos[i])
    \/ \E c \in Categories : EditSetCategory(c)
    \/ EditSave
    \/ EditDelete
    \/ EditClose

Spec == Init /\ [][Next]_vars

NextAuth ==
    \/ \E u \in Users \cup {NoUser} : AuthInit(u)
    \/ \E u \in Users : LoginSignIn(u)
    \/ handleSignOut
    \/ Snapshot
    \/ ToastExpire
    \/ submitForm(MaxDocs, <<>>, <<"A", "n">>, "medium", "General")
    \/ \E i \in 1..Len(todos) : toggleComplete(todos[i])
    \/ \E i \in 1..Len(todos) : TaskItemDelete(todos[i])
    \/ \E k \in 1..Len(toasts) : Undo(k)
    \/ \E i \in 1..Len(todos) : openEditModal(todos[i])
    \/ EditDelete
    \/ EditClose
    \/ ManagerOpen
    \/ ManagerClose
    \/ \E g \in Users : handleConnectGoogle(g)

SpecAuth == Init /\ [][NextAuth]_vars

(***************************************************************************)
(* The rota: getShiftEndTime and the add form's deadline controls          *)
(*                                                                         *)
(* parseISO of a date string is its day number; date-fns works on local    *)
(* calendar days, so a week is seven consecutive day numbers from a Monday *)
(* (weekStartsOn: 1).  JavaScript's % takes the sign of the dividend.      *)
(***************************************************************************)
MaxRotaWeeks == 2
MaxWeeks == 3

Dates == 0..(7 * MaxWeeks - 1)

\* new Date() falls in the second week, so that dates lie on both sides of it
TodayDates == 7..13

\* the Mondays handleSaveRota writes and a mid-week day
AnchorDates == {NoDate} \cup {d \in Dates : d % 7 \in {0, 3}}

\* a WeeklySchedule that does not hold every weekday
LATE_WEEK ==
    [monday |-> [start |-> "10:00", end |-> "18:00", isOff |-> FALSE],
     tuesday |-> [start |-> "10:00", end |-> "18:00", isOff |-> FALSE],
     wednesday |-> [start |-> "10:00", end |-> "18:00", isOff |-> FALSE],
     thursday |-> [start |-> "10:00", end |-> "20:00", isOff |-> FALSE],
     friday |-> [start |-> "10:00", end |-> "18:00", isOff |-> TRUE]]

RotaWeeks == {DEFAULT_WEEK, LATE_WEEK}

\* RotaSystem values of up to MaxRotaWeeks weeks, the empty list included
RotaSystems == UNION {[1..n -> RotaWeeks] : n \in 0..MaxRotaWeeks}

DayNames ==
    <<"monday", "tuesday", "wednesday", "thursday", "friday", "saturday", "sunday">>

JsRem(a, n) == IF a >= 0 THEN a % n ELSE -((-a) % n)

startOfWeek(d) == d - (d % 7)

differenceInCalendarWeeks(dateLeft, dateRight) ==
    (startOfWeek(dateLeft) - startOfWeek(dateRight)) \div 7

getDayName(dateStr) ==
    IF dateStr = NoDate THEN "monday" ELSE DayNames[(dateStr % 7) + 1]

\* the remainder taken once: negative for a target before the anchor
cycleIndexNoWrap(weeksPassed, n) == JsRem(weeksPassed, n)

cycleIndex(weeksPassed, n) == JsRem(JsRem(weeksPassed, n) + n, n)

\* the end time returned for an off day too
shiftEndIgnoringOff(daySettings) == daySettings.end

shiftEnd(daySettings) == IF daySettings.isOff THEN "17:30" ELSE daySettings.end

\* weeksPassed as the function computes it for a date
weeksPassedOf(dateStr, anchorDateStr) ==
    differenceInCalendarWeeks(dateStr,
        IF anchorDateStr # NoDate THEN anchorDateStr ELSE startOfWeek(today))

\* An index outside the list reads undefined, and the lookup of the weekday
\* on it throws: the result is then "TypeError".  So does an empty date
\* string, whose week difference is NaN.
getShiftEndTime(dateStr, rs, anchorDateStr) ==
    IF Len(rs) = 0 THEN "17:30"
    ELSE IF dateStr = NoDate THEN "TypeError"
    ELSE LET day == getDayName(dateStr)
             idx == cycleIndex(weeksPassedOf(dateStr, anchorDateStr), Len(rs))
         IN IF idx \notin 0..(Len(rs) - 1) THEN "TypeError"
            ELSE LET currentSchedule == rs[idx + 1]
                 IN shiftEnd(IF day \in DOMAIN currentSchedule
                             THEN currentSchedule[day]
                             ELSE DEFAULT_WEEK.monday)

\* "End of Today" / "End of Tomorrow", offered while no date is set
setSmartDeadline(type) ==
    /\ MainPage
    /\ dueDate = NoDate
    /\ LET dateStr == IF type = "today" THEN today ELSE today + 1
       IN /\ dueDate' = dateStr
          /\ dueTime' = getShiftEndTime(dateStr, rotas, anchorDate)
          /\ shiftDate' = dateStr
    /\ UNCHANGED <<appVars, restVars, store, nextId, todos, pendingSnap, modalVars, toasts,
                   calVars, rotaVars, viewVars>>

\* "End of Day" in the time menu, offered once a date is set
applyEndOfDay ==
    /\ MainPage
    /\ dueDate # NoDate
    /\ LET targetDate == IF dueDate # NoDate THEN dueDate ELSE today
       IN /\ dueTime' = getShiftEndTime(targetDate, rotas, anchorDate)
          /\ shiftDate' = targetDate
    /\ UNCHANGED <<appVars, restVars, store, nextId, todos, pendingSnap, modalVars, toasts,
                   calVars, dueDate, rotaVars, viewVars>>

\* "Custom Date...": today's date, no time
CustomDate ==
    /\ MainPage
    /\ dueDate = NoDate
    /\ dueDate' = today
    /\ UNCHANGED <<appVars, restVars, store, nextId, todos, pendingSnap, modalVars, toasts,
                   calVars, dueTime, shiftDate, rotaVars, viewVars>>

\* the date input, shown once a date is set
SetDueDate(d) ==
    /\ MainPage
    /\ dueDate # NoDate
    /\ dueDate' = d
    /\ UNCHANGED <<appVars, restVars, store, nextId, todos, pendingSnap, modalVars, toasts,
                   calVars, dueTime, shiftDate, rotaVars, viewVars>>

\* the X button next to the deadline: setDueDate(''); setDueTime('')
ClearDeadline ==
    /\ MainPage
    /\ dueDate # NoDate
    /\ dueDate' = NoDate
    /\ dueTime' = ""
    /\ shiftDate' = NoDate
    /\ UNCHANGED <<appVars, restVars, store, nextId, todos, pendingSnap, modalVars, toasts,
                   calVars, rotaVars, viewVars>>

\* A signed-in Dashboard whose users document holds any rota and anchor.
InitShift ==
    /\ user = "u1"
    /\ loading = FALSE
    /\ view = AppRender("u1", FALSE)
    /\ authSeen = TRUE
    /\ store = << >>
    /\ nextId = 1
    /\ todos = <<>>
    /\ pendingSnap = FALSE
    /\ editTask = <<>>
    /\ form = <<>>
    /\ isSafetyModalOpen = FALSE
    /\ taskToComplete = <<>>
    /\ toasts = <<>>
    /\ isManagerOpen = FALSE
    /\ rotas \in RotaSystems
    /\ anchorDate \in AnchorDates
    /\ dueDate = NoDate
    /\ dueTime = ""
    /\ searchQuery = <<>>
    /\ selectedTasks = <<>>
    /\ today \in TodayDates
    /\ now = today * 24 * 60 * 60
    /\ shiftDate = NoDate
    /\ InitRest

NextShift ==
    \/ \E type \in {"today", "tomorrow"} : setSmartDeadline(type)
    \/ applyEndOfDay
    \/ CustomDate
    \/ \E d \in Dates : SetDueDate(d)
    \/ ClearDeadline

SpecShift == InitShift /\ [][NextShift]_vars

(***************************************************************************)
(* groupedTodos: the search filter, the list buckets and the board columns *)
(*                                                                         *)
(* A Date is its number of seconds since day 0, 00:00 local time;          *)
(* parseISO of a date string is its day at 00:00:00.                       *)
(***************************************************************************)
MaxListed == 1

toLowerChar(c) ==
    CASE c = "A" -> "a"
      [] c = "F" -> "f"
      [] c = "N" -> "n"
      [] c = "V" -> "v"
      [] OTHER -> c

toLowerCase(str) == [i \in 1..Len(str) |-> toLowerChar(str[i])]

includes(str, q) ==
    \E i \in 0..(Len(str) - Len(q)) : SubSeq(str, i + 1, i + Len(q)) = q

\* dueTime.split(':').map(Number)
splitTime(t) ==
    CASE t = "00:00" -> <<0, 0>>
      [] t = "09:00" -> <<9, 0>>
      [] t = "13:00" -> <<13, 0>>
      [] t = "17:30" -> <<17, 30>>
      [] t = "18:00" -> <<18, 0>>
      [] t = "20:00" -> <<20, 0>>

\* Date.prototype.setHours(h, m, s) on the date of day d
setHours(d, h, m, s) == d * 24 * 60 * 60 + h * 60 * 60 + m * 60 + s

addHours(date, h) == date + h * 60 * 60

\* the todos.filter predicate
matchesSearch(t, q) ==
    \/ includes(toLowerCase(t.text), toLowerCase(q))
    \/ /\ t.patientName # <<>>
       /\ includes(toLowerCase(t.patientName), toLowerCase(q))

statusOf(todo) == IF todo.status # "" THEN todo.status ELSE "todo"

isComplete(todo) == todo.completed \/ statusOf(todo) = "done"

\* the column chosen by the status alone
boardColumnByStatus(todo) ==
    IF statusOf(todo) = "done" THEN "done"
    ELSE IF statusOf(todo) = "waiting" THEN "waiting"
    ELSE IF statusOf(todo) = "in-progress" THEN "inProgress"
    ELSE "todo"

boardColumn(todo) ==
    IF isComplete(todo) THEN "done"
    ELSE IF statusOf(todo) = "waiting" THEN "waiting"
    ELSE IF statusOf(todo) = "in-progress" THEN "inProgress"
    ELSE "todo"

\* the due instant left at 00:00:00 when there is no due time
dueInstantAtMidnight(todo) ==
    IF todo.dueTime # ""
    THEN setHours(todo.dueDate, splitTime(todo.dueTime)[1], splitTime(todo.dueTime)[2], 0)
    ELSE setHours(todo.dueDate, 0, 0, 0)

dueInstant(todo) ==
    IF todo.dueTime # ""
    THEN setHours(todo.dueDate, splitTime(todo.dueTime)[1], splitTime(todo.dueTime)[2], 0)
    ELSE setHours(todo.dueDate, 23, 59, 59)

listBucket(todo, n) ==
    IF isComplete(todo) THEN "completed"
    ELSE IF todo.dueDate = NoDate THEN "later"
    ELSE IF dueInstant(todo) < n THEN "overdue"
    ELSE IF dueInstant(todo) < addHours(n, 24) THEN "soon"
    ELSE "later"

\* one round of filtered.forEach: a push on a board column and on a list bucket
pushTodo(g, todo, n) ==
    [list |-> [g.list EXCEPT ![listBucket(todo, n)] = Append(@, todo)],
     board |-> [g.board EXCEPT ![boardColumn(todo)] = Append(@, todo)]]

RECURSIVE forEachTodo(_, _, _)
forEachTodo(g, filtered, n) ==
    IF filtered = <<>> THEN g
    ELSE forEachTodo(pushTodo(g, Head(filtered), n), Tail(filtered), n)

groupedTodos(ts, q, n) ==
    forEachTodo([list |-> [overdue |-> <<>>, soon |-> <<>>, later |-> <<>>,
                           completed |-> <<>>],
                 board |-> [todo |-> <<>>, inProgress |-> <<>>, waiting |-> <<>>,
                            done |-> <<>>]],
                SelectSeq(ts, LAMBDA t : matchesSearch(t, q)), n)

\* the search box
setSearchQuery(q) ==
    /\ view = "dashboard"
    /\ q # searchQuery
    /\ searchQuery' = q
    /\ UNCHANGED <<appVars, restVars, store, nextId, todos, pendingSnap, modalVars, toasts,
                   calVars, formVars, rotaVars, now, selectedTasks>>

\* the instants the clock is read at: around each threshold of a task due on
\* day 1, at 09:00 or at the end of the day
ClockTimes ==
    UNION {{addHours(due, -24), addHours(due, -24) + 60, due, due + 60} :
              due \in {setHours(1, 9, 0, 0), setHours(1, 23, 59, 59)}}

\* the minute timer: setNow(new Date())
Tick ==
    /\ view = "dashboard"
    /\ \E t \in ClockTimes :
          /\ t >= now + 60
          /\ now' = t
          /\ today' = t \div (24 * 60 * 60)
    /\ UNCHANGED <<appVars, restVars, store, nextId, todos, pendingSnap, modalVars, toasts,
                   calVars, formVars, rotas, anchorDate, searchQuery,
                   selectedTasks>>

\* the description and patient name of a task
TaskTexts ==
    {[text |-> <<"V", "f">>, patientName |-> <<>>],
     [text |-> <<>>, patientName |-> <<"A", "n">>]}

Queries == {<<>>, <<"v">>, <<"F">>, <<"a", "n">>, <<"n", "a">>}

\* The documents a user's collection may hold, those written by earlier
\* versions of the handlers included: status may be missing, and completed
\* need not agree with it.
StoredTasks(id) ==
    {[id |-> id, text |-> x.text, patientName |-> x.patientName,
      completed |-> c, status |-> s, priority |-> "medium", uid |-> "u1",
      category |-> "General", dueDate |-> d, dueTime |-> t, notes |-> "",
      sentVia |-> "", createdAt |-> id] :
        x \in TaskTexts, c \in BOOLEAN, s \in Statuses \cup {""},
        d \in {NoDate, 1}, t \in {"", "09:00"}}

\* A signed-in Dashboard after a snapshot of up to MaxListed documents.
InitGroup ==
    /\ user = "u1"
    /\ loading = FALSE
    /\ view = AppRender("u1", FALSE)
    /\ authSeen = TRUE
    /\ \E k \in 0..MaxListed :
          /\ store \in [1..k -> UNION {StoredTasks(id) : id \in 1..k}]
          /\ \A id \in 1..k : store[id].id = id
          /\ nextId = k + 1
    /\ todos = SnapshotTodos(store, user)
    /\ pendingSnap = FALSE
    /\ editTask = <<>>
    /\ form = <<>>
    /\ isSafetyModalOpen = FALSE
    /\ taskToComplete = <<>>
    /\ toasts = <<>>
    /\ isManagerOpen = FALSE
    /\ rotas = <<DEFAULT_WEEK>>
    /\ anchorDate = NoDate
    /\ dueDate = NoDate
    /\ dueTime = ""
    /\ shiftDate = NoDate
    /\ searchQuery = <<>>
    /\ selectedTasks = <<>>
    /\ now \in ClockTimes
    /\ today = now \div (24 * 60 * 60)
    /\ InitRest

NextGroup ==
    \/ \E q \in Queries : setSearchQuery(q)
    \/ Tick

SpecGroup == InitGroup /\ [][NextGroup]_vars

(***************************************************************************)
(* The add form: the description field with its slash commands, the other  *)
(* fields, and the submission                                              *)
(***************************************************************************)
endsWith(str, c) == str # <<>> /\ str[Len(str)] = c

\* the last element of str.split(' ')
RECURSIVE lastOfSplit(_)
lastOfSplit(str) ==
    IF str = <<>> \/ str[Len(str)] = " " THEN <<>>
    ELSE Append(lastOfSplit(SubSeq(str, 1, Len(str) - 1)), str[Len(str)])

\* str.slice(0, -k) for k > 0
sliceOff(str, k) == SubSeq(str, 1, IF Len(str) > k THEN Len(str) - k ELSE 0)

\* Array.prototype.find on the triggers: the first match, or none
findCommand(cmds, word) ==
    LET hits == {i \in 1..Len(cmds) : cmds[i].trigger = word}
    IN IF hits = {} THEN <<>>
       ELSE <<cmds[CHOOSE i \in hits : \A j \in hits : i <= j]>>

\* the value handleInputChange stores for the field's new value
expandInput(val, cmds) ==
    IF endsWith(val, " ")
    THEN LET lastWord == lastOfSplit(trim(val))
             match == findCommand(cmds, lastWord)
         IN IF match # <<>>
            THEN sliceOff(val, Len(lastWord) + 1) \o match[1].expansion \o <<" ">>
            ELSE val
    ELSE val

handleInputChange(val) ==
    /\ MainPage
    /\ val # input
    /\ input' = expandInput(val, slashCommands)
    /\ UNCHANGED <<appVars, store, nextId, todos, pendingSnap, modalVars, toasts,
                   calVars, formVars, rotaVars, viewVars, patientInput, category,
                   priority, customVars, userDocs, extVars, localStorage,
                   remoteVars, loginVars, urlVars>>

setPatientInput(val) ==
    /\ MainPage
    /\ val # patientInput
    /\ patientInput' = val
    /\ UNCHANGED <<appVars, store, nextId, todos, pendingSnap, modalVars, toasts,
                   calVars, formVars, rotaVars, viewVars, input, category,
                   priority, customVars, userDocs, extVars, localStorage,
                   remoteVars, loginVars, urlVars>>

\* the category menu lists the configured categories
setCategory(c) ==
    /\ MainPage
    /\ \E i \in 1..Len(categories) : categories[i] = c
    /\ c # category
    /\ category' = c
    /\ UNCHANGED <<appVars, store, nextId, todos, pendingSnap, modalVars, toasts,
                   calVars, formVars, rotaVars, viewVars, input, patientInput,
                   priority, customVars, userDocs, extVars, localStorage,
                   remoteVars, loginVars, urlVars>>

setPriority(p) ==
    /\ MainPage
    /\ p # priority
    /\ priority' = p
    /\ UNCHANGED <<appVars, store, nextId, todos, pendingSnap, modalVars, toasts,
                   calVars, formVars, rotaVars, viewVars, input, patientInput,
                   category, customVars, userDocs, extVars, localStorage,
                   remoteVars, loginVars, urlVars>>

\* values typed or pasted into the description field
InputValues ==
    {<<"/", "v", "f", " ", " ">>,
     <<"a", " ", "/", "c", "l", " ">>, <<"a", "/", "c", "l", " ">>, <<" ">>}

PatientValues == {<<>>, <<"A", "n">>}

\* A signed-in Dashboard whose users document lists two categories.
InitForm ==
    /\ user = "u1"
    /\ loading = FALSE
    /\ view = AppRender("u1", FALSE)
    /\ authSeen = TRUE
    /\ store = << >>
    /\ nextId = 1
    /\ todos = <<>>
    /\ pendingSnap = FALSE
    /\ editTask = <<>>
    /\ form = <<>>
    /\ isSafetyModalOpen = FALSE
    /\ taskToComplete = <<>>
    /\ toasts = <<>>
    /\ isManagerOpen = FALSE
    /\ rotas = <<DEFAULT_WEEK>>
    /\ anchorDate = NoDate
    /\ dueDate = NoDate
    /\ dueTime = ""
    /\ shiftDate = NoDate
    /\ searchQuery = <<>>
    /\ selectedTasks = <<>>
    /\ now = 0
    /\ today = 0
    /\ input = <<>>
    /\ patientInput = <<>>
    /\ category = "General"
    /\ priority = "medium"
    /\ categories = <<"General", "Referral">>
    /\ slashCommands = DEFAULT_SLASH_COMMANDS
    /\ referralMethods = DEFAULT_REFERRAL_METHODS
    /\ userDocs = [u \in {"u1"} |-> [categories |-> <<"General", "Referral">>]]
    /\ googleEvents = <<>>
    /\ outlookEvents = <<>>
    /\ googleConnected = FALSE
    /\ outlookConnected = FALSE
    /\ outlookExpired = FALSE
    /\ externalCalendars = <<>>
    /\ googleLoads = {}
    /\ outlookLoads = {}
    /\ localStorage = << >>
    /\ googleCalendar = <<>>
    /\ outlookCalendars = << >>
    /\ mode = "signin"
    /\ loginLoading = FALSE
    /\ error = ""
    /\ password = <<>>
    /\ confirmPassword = <<>>
    /\ pwdValid = [length |-> FALSE, upper |-> FALSE, lower |-> FALSE,
                   number |-> FALSE, special |-> FALSE]
    /\ resetLink = FALSE
    /\ locationHash = FALSE
    /\ authRequest = <<>>

NextForm ==
    \/ \E val \in InputValues : handleInputChange(val)
    \/ \E val \in PatientValues : setPatientInput(val)
    \/ \E c \in Categories : setCategory(c)
    \/ \E p \in {"low", "medium", "high"} : setPriority(p)
    \/ setSmartDeadline("tomorrow")
    \/ ClearDeadline
    \/ addTodo(MaxTasks)

SpecForm == InitForm /\ [][NextForm]_vars

(***************************************************************************)
(* External calendars: the loads, the manager's buttons, and the calendars *)
(* themselves, which their owner edits elsewhere.  A load that was started *)
(* is awaited until its response arrives; loads started with the same      *)
(* arguments and still awaited are kept as one.                            *)
(***************************************************************************)
GoogleRemotes == {<<>>, <<"g1">>}

OutlookRemotes ==
    {<<>>, <<[id |-> "c1", isDefaultCalendar |-> TRUE, events |-> <<"o1">>]>>}

\* the owner adds or removes events in Google Calendar or Outlook
CalendarOwnerEdits ==
    /\ \/ /\ googleCalendar' \in GoogleRemotes \ {googleCalendar}
          /\ UNCHANGED outlookCalendars
       \/ /\ outlookCalendars' \in OutlookRemotes \ {outlookCalendars}
          /\ UNCHANGED googleCalendar
    /\ UNCHANGED <<appVars, store, nextId, todos, pendingSnap, modalVars, toasts,
                   calVars, formVars, rotaVars, viewVars, inputVars, customVars,
                   userDocs, extVars, localStorage, loginVars, urlVars>>

\* loadGoogleEvents after its fetch: ok tells whether the response was 2xx
GoogleLoadDone(l, ok) ==
    /\ view = "dashboard"
    /\ l \in googleLoads
    /\ googleLoads' = googleLoads \ {l}
    /\ IF ok
       THEN /\ googleEvents' = [i \in 1..Len(googleCalendar) |->
                                   [id |-> googleCalendar[i], source |-> "google"]]
            /\ googleConnected' = TRUE
       ELSE UNCHANGED <<googleEvents, googleConnected>>
    /\ UNCHANGED <<appVars, store, nextId, todos, pendingSnap, modalVars, toasts,
                   calVars, formVars, rotaVars, viewVars, inputVars, customVars,
                   userDocs, outlookEvents, outlookConnected, outlookExpired,
                   externalCalendars, outlookLoads, localStorage, remoteVars,
                   loginVars, urlVars>>

\* calData.value merged with the activity saved for uid
mergedCalendars(uid) ==
    LET existing == getItem(localStorage, "outlook_calendars", uid)
        savedState == IF existing # <<>> THEN existing[1] ELSE <<>>
        saved(c) == {i \in 1..Len(savedState) : savedState[i].id = c.id}
    IN [i \in 1..Len(outlookCalendars) |->
          LET c == outlookCalendars[i]
          IN [id |-> c.id, source |-> "outlook",
              isActive |-> IF saved(c) # {}
                           THEN savedState[CHOOSE k \in saved(c) :
                                              \A j \in saved(c) : k <= j].isActive
                           ELSE c.isDefaultCalendar]]

\* the events fetched for the active calendars, in their order; a calendar's
\* name is modelled by its id
RECURSIVE allEvents(_)
allEvents(cals) ==
    IF cals = <<>> THEN <<>>
    ELSE LET c == Head(cals)
             hits == {i \in 1..Len(outlookCalendars) : outlookCalendars[i].id = c.id}
             value == IF hits = {} THEN <<>>
                      ELSE outlookCalendars[CHOOSE i \in hits : TRUE].events
         IN (IF c.isActive
             THEN [k \in 1..Len(value) |->
                      [id |-> value[k], source |-> "outlook", calendarName |-> c.id]]
             ELSE <<>>) \o allEvents(Tail(cals))

HasActive(cals) == \E i \in 1..Len(cals) : cals[i].isActive

\* OutlookCalendarsDone whose 401 branch sets the expired flag alone
OutlookCalendarsDoneExpiredOnly(l, status) ==
    /\ view = "dashboard"
    /\ l \in outlookLoads
    /\ l.phase = "calendars"
    /\ IF status = 200
       THEN LET merged == mergedCalendars(l.uid)
            IN /\ outlookExpired' = FALSE
               /\ externalCalendars' =
                      SelectSeq(externalCalendars, LAMBDA c : c.source = "google")
                          \o merged
               /\ outlookConnected' = TRUE
               /\ IF HasActive(merged)
                  THEN /\ outlookLoads' = (outlookLoads \ {l}) \cup
                              {[uid |-> l.uid, phase |-> "events",
                                calendars |-> merged]}
                       /\ UNCHANGED outlookEvents
                  ELSE /\ outlookLoads' = outlookLoads \ {l}
                       /\ outlookEvents' = <<>>
       ELSE /\ outlookLoads' = outlookLoads \ {l}
            /\ outlookConnected' = outlookConnected
            /\ outlookExpired' = (outlookExpired \/ status = 401)
            /\ UNCHANGED <<externalCalendars, outlookEvents>>
    /\ UNCHANGED <<appVars, store, nextId, todos, pendingSnap, modalVars, toasts,
                   calVars, formVars, rotaVars, viewVars, inputVars, customVars,
                   userDocs, googleEvents, googleConnected, googleLoads,
                   localStorage, remoteVars, loginVars, urlVars>>

\* loadOutlookData after the fetch of the calendars; status is the response's
OutlookCalendarsDone(l, status) ==
    /\ view = "dashboard"
    /\ l \in outlookLoads
    /\ l.phase = "calendars"
    /\ IF status = 200
       THEN LET merged == mergedCalendars(l.uid)
            IN /\ outlookExpired' = FALSE
               /\ externalCalendars' =
                      SelectSeq(externalCalendars, LAMBDA c : c.source = "google")
                          \o merged
               /\ outlookConnected' = TRUE
               /\ IF HasActive(merged)
                  THEN /\ outlookLoads' = (outlookLoads \ {l}) \cup
                              {[uid |-> l.uid, phase |-> "events",
                                calendars |-> merged]}
                       /\ UNCHANGED outlookEvents
                  ELSE /\ outlookLoads' = outlookLoads \ {l}
                       /\ outlookEvents' = <<>>
       ELSE /\ outlookLoads' = outlookLoads \ {l}
            /\ outlookConnected' = (outlookConnected \/ status = 401)
            /\ outlookExpired' = (outlookExpired \/ status = 401)
            /\ UNCHANGED <<externalCalendars, outlookEvents>>
    /\ UNCHANGED <<appVars, store, nextId, todos, pendingSnap, modalVars, toasts,
                   calVars, formVars, rotaVars, viewVars, inputVars, customVars,
                   userDocs, googleEvents, googleConnected, googleLoads,
                   localStorage, remoteVars, loginVars, urlVars>>

\* loadOutlookData after the fetches of the active calendars' events
OutlookEventsDone(l) ==
    /\ view = "dashboard"
    /\ l \in outlookLoads
    /\ l.phase = "events"
    /\ outlookLoads' = outlookLoads \ {l}
    /\ outlookEvents' = allEvents(l.calendars)
    /\ UNCHANGED <<appVars, store, nextId, todos, pendingSnap, modalVars, toasts,
                   calVars, formVars, rotaVars, viewVars, inputVars, customVars,
                   userDocs, googleEvents, googleConnected, outlookConnected,
                   outlookExpired, externalCalendars, googleLoads, localStorage,
                   remoteVars, loginVars, urlVars>>

toggleCalendar(id) ==
    /\ view = "dashboard"
    /\ isManagerOpen
    /\ outlookConnected /\ ~outlookExpired
    /\ \E i \in 1..Len(externalCalendars) :
          externalCalendars[i].id = id /\ externalCalendars[i].source = "outlook"
    /\ LET updated == [i \in 1..Len(externalCalendars) |->
                          IF externalCalendars[i].id = id
                          THEN [externalCalendars[i] EXCEPT !.isActive = ~@]
                          ELSE externalCalendars[i]]
       IN /\ externalCalendars' = updated
          /\ localStorage' =
                 setItem(localStorage, "outlook_calendars", user,
                         SelectSeq(updated, LAMBDA c : c.source = "outlook"))
    /\ outlookLoads' =
           IF getItem(localStorage, "outlook_token", user) # <<>>
           THEN outlookLoads \cup
                    {[uid |-> user, phase |-> "calendars", calendars |-> <<>>]}
           ELSE outlookLoads
    /\ UNCHANGED <<appVars, store, nextId, todos, pendingSnap, modalVars, toasts,
                   calVars, formVars, rotaVars, viewVars, inputVars, customVars,
                   userDocs, googleEvents, outlookEvents, googleConnected,
                   outlookConnected, outlookExpired, googleLoads, remoteVars,
                   loginVars, urlVars>>

\* handleConnectOutlook leaves the page for Microsoft's sign-in, which comes
\* back to the app's address with the access token in the URL hash: the app
\* starts again, and the persisted session signs the user in.
handleConnectOutlook ==
    /\ view = "dashboard"
    /\ isManagerOpen
    /\ ~outlookConnected \/ outlookExpired
    /\ user' = NoUser
    /\ loading' = TRUE
    /\ view' = AppRender(NoUser, TRUE)
    /\ authSeen' = FALSE
    /\ DashboardFresh
    /\ googleEvents' = <<>>
    /\ outlookEvents' = <<>>
    /\ googleConnected' = FALSE
    /\ outlookConnected' = FALSE
    /\ outlookExpired' = FALSE
    /\ externalCalendars' = <<>>
    /\ googleLoads' = {}
    /\ outlookLoads' = {}
    /\ locationHash' = TRUE
    /\ LoginFresh
    /\ UNCHANGED <<store, nextId, now, today, userDocs, localStorage, remoteVars,
                   resetLink>>

\* the Disconnect button is shown for a connected source
handleDisconnectCalendarRemote(source) ==
    /\ view = "dashboard"
    /\ isManagerOpen
    /\ IF source = "google"
       THEN /\ googleConnected
            /\ localStorage' = removeItem(localStorage, "google_token", user)
            /\ googleEvents' = <<>>
            /\ googleConnected' = FALSE
            /\ googleCalendar' = <<>>
            /\ UNCHANGED <<outlookEvents, outlookConnected, outlookExpired,
                           externalCalendars, outlookCalendars>>
       ELSE /\ outlookConnected /\ ~outlookExpired
            /\ localStorage' =
                   removeItem(removeItem(removeItem(localStorage,
                       "outlook_token", user), "outlook_connected", user),
                       "outlook_calendars", user)
            /\ outlookEvents' = <<>>
            /\ outlookConnected' = FALSE
            /\ outlookExpired' = FALSE
            /\ externalCalendars' =
                   SelectSeq(externalCalendars, LAMBDA c : c.source # "outlook")
            /\ outlookCalendars' = <<>>
            /\ UNCHANGED <<googleEvents, googleConnected, googleCalendar>>
    /\ UNCHANGED <<appVars, store, nextId, todos, pendingSnap, modalVars, toasts,
                   calVars, formVars, rotaVars, viewVars, inputVars, customVars,
                   userDocs, googleLoads, outlookLoads, loginVars, urlVars>>

handleDisconnectCalendar(source) ==
    /\ view = "dashboard"
    /\ isManagerOpen
    /\ IF source = "google"
       THEN /\ googleConnected
            /\ localStorage' = removeItem(localStorage, "google_token", user)
            /\ googleEvents' = <<>>
            /\ googleConnected' = FALSE
            /\ UNCHANGED <<outlookEvents, outlookConnected, outlookExpired,
                           externalCalendars>>
       ELSE /\ outlookConnected /\ ~outlookExpired
            /\ localStorage' =
                   removeItem(removeItem(removeItem(localStorage,
                       "outlook_token", user), "outlook_connected", user),
                       "outlook_calendars", user)
            /\ outlookEvents' = <<>>
            /\ outlookConnected' = FALSE
            /\ outlookExpired' = FALSE
            /\ externalCalendars' =
                   SelectSeq(externalCalendars, LAMBDA c : c.source # "outlook")
            /\ UNCHANGED <<googleEvents, googleConnected>>
    /\ UNCHANGED <<appVars, store, nextId, todos, pendingSnap, modalVars, toasts,
                   calVars, formVars, rotaVars, viewVars, inputVars, customVars,
                   userDocs, googleLoads, outlookLoads, remoteVars, loginVars,
                   urlVars>>

\* A signed-in Dashboard with nothing connected; both accounts hold an event.
InitCal ==
    /\ user = "u1"
    /\ loading = FALSE
    /\ view = AppRender("u1", FALSE)
    /\ authSeen = TRUE
    /\ store = << >>
    /\ nextId = 1
    /\ todos = <<>>
    /\ pendingSnap = FALSE
    /\ editTask = <<>>
    /\ form = <<>>
    /\ isSafetyModalOpen = FALSE
    /\ taskToComplete = <<>>
    /\ toasts = <<>>
    /\ isManagerOpen = FALSE
    /\ rotas = <<DEFAULT_WEEK>>
    /\ anchorDate = NoDate
    /\ dueDate = NoDate
    /\ dueTime = ""
    /\ shiftDate = NoDate
    /\ searchQuery = <<>>
    /\ selectedTasks = <<>>
    /\ now = 0
    /\ today = 0
    /\ input = <<>>
    /\ patientInput = <<>>
    /\ category = "General"
    /\ priority = "medium"
    /\ categories = <<"General">>
    /\ slashCommands = DEFAULT_SLASH_COMMANDS
    /\ referralMethods = DEFAULT_REFERRAL_METHODS
    /\ userDocs = << >>
    /\ googleEvents = <<>>
    /\ outlookEvents = <<>>
    /\ googleConnected = FALSE
    /\ outlookConnected = FALSE
    /\ outlookExpired = FALSE
    /\ externalCalendars = <<>>
    /\ googleLoads = {}
    /\ outlookLoads = {}
    /\ localStorage = << >>
    /\ googleCalendar = <<"g1">>
    /\ outlookCalendars \in OutlookRemotes \ {<<>>}
    /\ mode = "signin"
    /\ loginLoading = FALSE
    /\ error = ""
    /\ password = <<>>
    /\ confirmPassword = <<>>
    /\ pwdValid = [length |-> FALSE, upper |-> FALSE, lower |-> FALSE,
                   number |-> FALSE, special |-> FALSE]
    /\ resetLink = FALSE
    /\ locationHash = FALSE
    /\ authRequest = <<>>

NextCal ==
    \/ AuthInit("u1")
    \/ ManagerOpen
    \/ ManagerClose
    \/ handleConnectGoogle(user)
    \/ handleConnectOutlook
    \/ \E l \in googleLoads, ok \in BOOLEAN : GoogleLoadDone(l, ok)
    \/ \E l \in outlookLoads, status \in {200, 401, 500} :
          OutlookCalendarsDone(l, status)
    \/ \E l \in outlookLoads : OutlookEventsDone(l)
    \/ \E i \in 1..Len(externalCalendars) : toggleCalendar(externalCalendars[i].id)
    \/ \E source \in {"google", "outlook"} : handleDisconnectCalendar(source)
    \/ CalendarOwnerEdits

SpecCal == InitCal /\ [][NextCal]_vars

(***************************************************************************)
(* Settings: the three saves into users/{uid} and the document's listener. *)
(* A document is a function from its field names to their values.          *)
(***************************************************************************)
\* setDoc(ref, data) without merge: the document becomes data
setDocNoMerge(docs, uid, data) ==
    [u \in DOMAIN docs \cup {uid} |-> IF u = uid THEN data ELSE docs[u]]

\* setDoc(ref, data, { merge: true })
setDocMerge(docs, uid, data) ==
    LET old == IF uid \in DOMAIN docs THEN docs[uid] ELSE << >>
    IN [u \in DOMAIN docs \cup {uid} |->
          IF u = uid
          THEN [f \in DOMAIN old \cup DOMAIN data |->
                   IF f \in DOMAIN data THEN data[f] ELSE old[f]]
          ELSE docs[u]]

\* the listener of users/{uid} with the document as the local write left it
UserDocSnapshot(data, newSlash, newRef) ==
    /\ IF "categories" \in DOMAIN data /\ data.categories # <<>>
       THEN categories' = data.categories /\ category' = data.categories[1]
       ELSE UNCHANGED <<categories, category>>
    /\ rotas' = IF "rotas" \in DOMAIN data THEN data.rotas
                ELSE IF "schedule" \in DOMAIN data THEN <<data.schedule>>
                ELSE rotas
    /\ anchorDate' = IF "anchorDate" \in DOMAIN data THEN data.anchorDate
                     ELSE anchorDate
    /\ slashCommands' = IF "slashCommands" \in DOMAIN data
                        THEN data.slashCommands ELSE newSlash
    /\ referralMethods' = IF "referralMethods" \in DOMAIN data
                          THEN data.referralMethods ELSE newRef

\* SettingsModal.handleSaveRota and saveRotas: the anchor is the Monday of
\* the week that was currentWeekSelection weeks before this one
saveRotas(newRotas, currentWeekSelection) ==
    /\ MainPage
    /\ currentWeekSelection < Len(newRotas)
    /\ userDocs' = setDocMerge(userDocs, user,
                       [rotas |-> newRotas,
                        anchorDate |-> startOfWeek(today) - 7 * currentWeekSelection])
    /\ UserDocSnapshot(userDocs'[user], slashCommands, referralMethods)
    /\ UNCHANGED <<appVars, store, nextId, todos, pendingSnap, modalVars, toasts,
                   calVars, formVars, today, viewVars, input, patientInput,
                   priority, extVars, localStorage, remoteVars, loginVars,
                   urlVars>>

handleSaveCategories(localCategories) ==
    /\ MainPage
    /\ userDocs' = setDocMerge(userDocs, user, [categories |-> localCategories])
    /\ UserDocSnapshot(userDocs'[user], slashCommands, referralMethods)
    /\ UNCHANGED <<appVars, store, nextId, todos, pendingSnap, modalVars, toasts,
                   calVars, formVars, today, viewVars, input, patientInput,
                   priority, extVars, localStorage, remoteVars, loginVars,
                   urlVars>>

saveAutomationSettings(newSlash, newRef) ==
    /\ MainPage
    /\ userDocs' = setDocMerge(userDocs, user,
                       [slashCommands |-> newSlash, referralMethods |-> newRef])
    /\ UserDocSnapshot(userDocs'[user], newSlash, newRef)
    /\ UNCHANGED <<appVars, store, nextId, todos, pendingSnap, modalVars, toasts,
                   calVars, formVars, today, viewVars, input, patientInput,
                   priority, extVars, localStorage, remoteVars, loginVars,
                   urlVars>>

\* users documents as sign-up and earlier versions of the app left them
ProfileDocs ==
    {[fullName |-> "Ann", phone |-> "+44"],
     [fullName |-> "Ann", schedule |-> LATE_WEEK]}

CategoryLists == {<<>>, <<"General">>, <<"Referral", "General">>}

SlashLists == {DEFAULT_SLASH_COMMANDS, SubSeq(DEFAULT_SLASH_COMMANDS, 1, 1)}

ReferralLists == {DEFAULT_REFERRAL_METHODS, SubSeq(DEFAULT_REFERRAL_METHODS, 1, 1)}

\* A signed-in Dashboard over users documents of two accounts; u1's may be
\* missing (an account that signed in with Google).
InitSettings ==
    /\ user = "u1"
    /\ loading = FALSE
    /\ view = AppRender("u1", FALSE)
    /\ authSeen = TRUE
    /\ store = << >>
    /\ nextId = 1
    /\ todos = <<>>
    /\ pendingSnap = FALSE
    /\ editTask = <<>>
    /\ form = <<>>
    /\ isSafetyModalOpen = FALSE
    /\ taskToComplete = <<>>
    /\ toasts = <<>>
    /\ isManagerOpen = FALSE
    /\ \E docs \in {[u \in {"u2"} |-> [fullName |-> "Bo"]]}
                      \cup {[u \in Users |-> IF u = "u1" THEN d ELSE [fullName |-> "Bo"]] :
                               d \in ProfileDocs} :
          /\ userDocs = docs
          /\ rotas = IF "u1" \in DOMAIN docs /\ "schedule" \in DOMAIN docs["u1"]
                     THEN <<docs["u1"].schedule>> ELSE <<DEFAULT_WEEK>>
    /\ anchorDate = NoDate
    /\ dueDate = NoDate
    /\ dueTime = ""
    /\ shiftDate = NoDate
    /\ searchQuery = <<>>
    /\ selectedTasks = <<>>
    /\ today = 8
    /\ now = today * 24 * 60 * 60
    /\ input = <<>>
    /\ patientInput = <<>>
    /\ category = "General"
    /\ priority = "medium"
    /\ categories = <<"General">>
    /\ slashCommands = DEFAULT_SLASH_COMMANDS
    /\ referralMethods = DEFAULT_REFERRAL_METHODS
    /\ googleEvents = <<>>
    /\ outlookEvents = <<>>
    /\ googleConnected = FALSE
    /\ outlookConnected = FALSE
    /\ outlookExpired = FALSE
    /\ externalCalendars = <<>>
    /\ googleLoads = {}
    /\ outlookLoads = {}
    /\ localStorage = << >>
    /\ googleCalendar = <<>>
    /\ outlookCalendars = << >>
    /\ mode = "signin"
    /\ loginLoading = FALSE
    /\ error = ""
    /\ password = <<>>
    /\ confirmPassword = <<>>
    /\ pwdValid = [length |-> FALSE, upper |-> FALSE, lower |-> FALSE,
                   number |-> FALSE, special |-> FALSE]
    /\ resetLink = FALSE
    /\ locationHash = FALSE
    /\ authRequest = <<>>

NextSettings ==
    \/ \E rs \in RotaSystems, sel \in 0..(MaxRotaWeeks - 1) :
          saveRotas(rs, sel)
    \/ \E cs \in CategoryLists : handleSaveCategories(cs)
    \/ \E sl \in SlashLists, rl \in ReferralLists : saveAutomationSettings(sl, rl)

SpecSettings == InitSettings /\ [][NextSettings]_vars

(***************************************************************************)
(* Login: the modes, the password fields, handleEmailAuth and the request  *)
(* it awaits.  authRequest holds the awaited call with the values the      *)
(* handler was rendered with (its password, and the error its finally      *)
(* block reads), or the three-second timer of a successful reset.          *)
(***************************************************************************)
UpperChars == {"A", "B", "C", "D", "E", "F", "G", "H", "I", "J", "K", "L", "M",
               "N", "O", "P", "Q", "R", "S", "T", "U", "V", "W", "X", "Y", "Z"}

LowerChars == {"a", "b", "c", "d", "e", "f", "g", "h", "i", "j", "k", "l", "m",
               "n", "o", "p", "q", "r", "s", "t", "u", "v", "w", "x", "y", "z"}

DigitChars == {"0", "1", "2", "3", "4", "5", "6", "7", "8", "9"}

SpecialChars == {"!", "@", "#", "$", "%", "^", "&", "*", "(", ")", ",", ".",
                 "?", "\"", ":", "{", "}", "|", "<", ">"}

\* the flags validatePassword stores in pwdValid
validatePassword(pwd) ==
    [length |-> Len(pwd) >= 10,
     upper |-> \E i \in 1..Len(pwd) : pwd[i] \in UpperChars,
     lower |-> \E i \in 1..Len(pwd) : pwd[i] \in LowerChars,
     number |-> \E i \in 1..Len(pwd) : pwd[i] \in DigitChars,
     special |-> \E i \in 1..Len(pwd) : pwd[i] \in SpecialChars]

isPasswordValid ==
    pwdValid.length /\ pwdValid.upper /\ pwdValid.lower /\ pwdValid.number
        /\ pwdValid.special

\* the buttons below the form
setMode(m) ==
    /\ view = "login"
    /\ \/ mode = "signin" /\ m \in {"forgot", "signup"}
       \/ mode \in {"signup", "forgot", "reset"} /\ m = "signin"
    /\ mode' = m
    /\ UNCHANGED <<appVars, store, nextId, todos, pendingSnap, modalVars, toasts,
                   calVars, formVars, rotaVars, viewVars, inputVars, customVars,
                   userDocs, extVars, localStorage, remoteVars, loginLoading,
                   error, password, confirmPassword, pwdValid, authRequest,
                   urlVars>>

\* the password field's onChange
setPassword(value) ==
    /\ view = "login"
    /\ mode # "forgot"
    /\ value # password
    /\ password' = value
    /\ pwdValid' = IF mode = "signup" \/ mode = "reset"
                   THEN validatePassword(value) ELSE pwdValid
    /\ UNCHANGED <<appVars, store, nextId, todos, pendingSnap, modalVars, toasts,
                   calVars, formVars, rotaVars, viewVars, inputVars, customVars,
                   userDocs, extVars, localStorage, remoteVars, mode,
                   loginLoading, error, confirmPassword, authRequest, urlVars>>

setConfirmPassword(value) ==
    /\ view = "login"
    /\ mode = "signup" \/ mode = "reset"
    /\ value # confirmPassword
    /\ confirmPassword' = value
    /\ UNCHANGED <<appVars, store, nextId, todos, pendingSnap, modalVars, toasts,
                   calVars, formVars, rotaVars, viewVars, inputVars, customVars,
                   userDocs, extVars, localStorage, remoteVars, mode,
                   loginLoading, error, password, pwdValid, authRequest, urlVars>>

\* loading as the finally block of a submission made in mode m leaves it,
\* err being the error of the render the handler was created in
finallyLoading(m, err, current) ==
    IF m # "forgot" /\ m # "reset" THEN FALSE
    ELSE IF m = "reset" /\ err # "" THEN FALSE
    ELSE current

\* handleEmailAuth up to its first await.  The submit button is disabled
\* while loading, and the browser submits no form with an empty required
\* field.  A second submission is not taken while a call or the redirect
\* timer of the first is pending.
handleEmailAuth ==
    /\ view = "login"
    /\ ~loginLoading
    /\ authRequest = <<>>
    /\ mode # "forgot" => password # <<>>
    /\ mode \in {"signup", "reset"} => confirmPassword # <<>>
    /\ IF mode \in {"signup", "reset"} /\ ~isPasswordValid
       THEN /\ error' = "Password does not meet security requirements."
            /\ loginLoading' = finallyLoading(mode, error, TRUE)
            /\ UNCHANGED authRequest
       ELSE IF mode \in {"signup", "reset"} /\ password # confirmPassword
       THEN /\ error' = "Passwords do not match."
            /\ loginLoading' = finallyLoading(mode, error, TRUE)
            /\ UNCHANGED authRequest
       ELSE /\ error' = ""
            /\ loginLoading' = TRUE
            /\ authRequest' = <<[kind |-> mode, password |-> password,
                                 confirmPassword |-> confirmPassword,
                                 error |-> error]>>
    /\ UNCHANGED <<appVars, store, nextId, todos, pendingSnap, modalVars, toasts,
                   calVars, formVars, rotaVars, viewVars, inputVars, customVars,
                   userDocs, extVars, localStorage, remoteVars, mode, password,
                   confirmPassword, pwdValid, urlVars>>

\* the awaited call is rejected: catch, then finally
AuthFailed ==
    /\ view = "login"
    /\ authRequest # <<>>
    /\ authRequest[1].kind # "redirect"
    /\ error' = "Firebase: Error"
    /\ loginLoading' = finallyLoading(authRequest[1].kind, authRequest[1].error,
                                      loginLoading)
    /\ authRequest' = <<>>
    /\ UNCHANGED <<appVars, store, nextId, todos, pendingSnap, modalVars, toasts,
                   calVars, formVars, rotaVars, viewVars, inputVars, customVars,
                   userDocs, extVars, localStorage, remoteVars, mode, password,
                   confirmPassword, pwdValid, urlVars>>

\* signInWithEmailAndPassword or createUserWithEmailAndPassword resolves:
\* the account u is signed in, App shows the Dashboard, and sign-up writes
\* the profile into users/{uid}
AuthSignedIn(u) ==
    /\ view = "login"
    /\ authRequest # <<>>
    /\ authRequest[1].kind \in {"signin", "signup"}
    /\ onAuthStateChanged(u)
    /\ userDocs' = IF authRequest[1].kind = "signup"
                   THEN setDocMerge(userDocs, u, [fullName |-> "Ann", phone |-> "+44"])
                   ELSE userDocs
    /\ UNCHANGED <<store, nextId, now, today, remoteVars>>

\* sendPasswordResetEmail or confirmPasswordReset resolves
AuthResolved ==
    /\ view = "login"
    /\ authRequest # <<>>
    /\ authRequest[1].kind \in {"forgot", "reset"}
    /\ IF authRequest[1].kind = "forgot"
       THEN /\ loginLoading' = FALSE
            /\ authRequest' = <<>>
       ELSE /\ loginLoading' = finallyLoading("reset", authRequest[1].error,
                                              loginLoading)
            /\ authRequest' = <<[authRequest[1] EXCEPT !.kind = "redirect"]>>
    /\ UNCHANGED <<appVars, store, nextId, todos, pendingSnap, modalVars, toasts,
                   calVars, formVars, rotaVars, viewVars, inputVars, customVars,
                   userDocs, extVars, localStorage, remoteVars, mode, error,
                   password, confirmPassword, pwdValid, urlVars>>

\* the timer of a successful reset, three seconds later
ResetRedirect ==
    /\ view = "login"
    /\ authRequest # <<>>
    /\ authRequest[1].kind = "redirect"
    /\ mode' = "signin"
    /\ password' = <<>>
    /\ confirmPassword' = <<>>
    /\ resetLink' = FALSE
    /\ authRequest' = <<>>
    /\ UNCHANGED <<appVars, store, nextId, todos, pendingSnap, modalVars, toasts,
                   calVars, formVars, rotaVars, viewVars, inputVars, customVars,
                   userDocs, extVars, localStorage, remoteVars, loginLoading,
                   error, pwdValid, locationHash>>

\* a password that meets every rule, and one that meets only one
PasswordValues ==
    {<<"A", "b", "c", "d", "e", "f", "g", "h", "1", "!">>,
     <<"a", "b", "c", "d", "e", "f">>}

\* The Login form as the first auth callback without a session shows it,
\* opened from the app's address or from the reset link of an email.
InitLogin ==
    /\ user = NoUser
    /\ loading = FALSE
    /\ view = AppRender(NoUser, FALSE)
    /\ authSeen = TRUE
    /\ store = << >>
    /\ nextId = 1
    /\ todos = <<>>
    /\ pendingSnap = TRUE
    /\ editTask = <<>>
    /\ form = <<>>
    /\ isSafetyModalOpen = FALSE
    /\ taskToComplete = <<>>
    /\ toasts = <<>>
    /\ isManagerOpen = FALSE
    /\ rotas = <<DEFAULT_WEEK>>
    /\ anchorDate = NoDate
    /\ dueDate = NoDate
    /\ dueTime = ""
    /\ shiftDate = NoDate
    /\ searchQuery = <<>>
    /\ selectedTasks = <<>>
    /\ now = 0
    /\ today = 0
    /\ input = <<>>
    /\ patientInput = <<>>
    /\ category = "General"
    /\ priority = "medium"
    /\ categories = <<"General">>
    /\ slashCommands = DEFAULT_SLASH_COMMANDS
    /\ referralMethods = DEFAULT_REFERRAL_METHODS
    /\ userDocs = << >>
    /\ googleEvents = <<>>
    /\ outlookEvents = <<>>
    /\ googleConnected = FALSE
    /\ outlookConnected = FALSE
    /\ outlookExpired = FALSE
    /\ externalCalendars = <<>>
    /\ googleLoads = {}
    /\ outlookLoads = {}
    /\ localStorage = << >>
    /\ googleCalendar = <<>>
    /\ outlookCalendars = << >>
    /\ resetLink \in BOOLEAN
    /\ mode = IF resetLink THEN "reset" ELSE "signin"
    /\ loginLoading = FALSE
    /\ error = ""
    /\ password = <<>>
    /\ confirmPassword = <<>>
    /\ pwdValid = [length |-> FALSE, upper |-> FALSE, lower |-> FALSE,
                   number |-> FALSE, special |-> FALSE]
    /\ locationHash = FALSE
    /\ authRequest = <<>>

NextLogin ==
    \/ \E m \in {"signin", "signup", "forgot"} : setMode(m)
    \/ \E value \in PasswordValues : setPassword(value)
    \/ \E value \in PasswordValues : setConfirmPassword(value)
    \/ handleEmailAuth
    \/ AuthFailed
    \/ AuthSignedIn("u1")
    \/ AuthResolved
    \/ ResetRedirect
    \/ handleSignOut

SpecLogin == InitLogin /\ [][NextLogin]_vars

(***************************************************************************)
(* The listener's sort over stored tasks of every priority                 *)
(***************************************************************************)
MaxSorted == 3

\* the orders in which serverTimestamp() can have stamped the documents
CreationOrders ==
    {f \in [1..MaxSorted -> 1..MaxSorted] :
        \A i, j \in 1..MaxSorted : i # j => f[i] # f[j]}

\* the user's documents as the handlers leave them: completed with 'done'
SortedStores ==
    {[id \in 1..MaxSorted |->
         [id |-> id, text |-> <<"v", "f">>, patientName |-> <<>>,
          completed |-> done[id],
          status |-> IF done[id] THEN "done" ELSE "todo",
          priority |-> prio[id], uid |-> "u1", category |-> "General",
          dueDate |-> NoDate, dueTime |-> "", notes |-> "", sentVia |-> "",
          createdAt |-> at[id]]] :
       done \in [1..MaxSorted -> BOOLEAN],
       prio \in [1..MaxSorted -> {"high", "medium"}],
       at \in CreationOrders}

\* A Dashboard just mounted for u1, before the first snapshot.
InitSort ==
    /\ user = "u1"
    /\ loading = FALSE
    /\ view = AppRender("u1", FALSE)
    /\ authSeen = TRUE
    /\ store \in SortedStores
    /\ nextId = MaxSorted + 1
    /\ todos = <<>>
    /\ pendingSnap = TRUE
    /\ editTask = <<>>
    /\ form = <<>>
    /\ isSafetyModalOpen = FALSE
    /\ taskToComplete = <<>>
    /\ toasts = <<>>
    /\ isManagerOpen = FALSE
    /\ rotas = <<DEFAULT_WEEK>>
    /\ anchorDate = NoDate
    /\ dueDate = NoDate
    /\ dueTime = ""
    /\ searchQuery = <<>>
    /\ selectedTasks = <<>>
    /\ now = 0
    /\ today = 0
    /\ shiftDate = NoDate
    /\ InitRest

NextSort ==
    \/ Snapshot
    \/ \E i \in 1..Len(todos) : toggleComplete(todos[i])

SpecSort == InitSort /\ [][NextSort]_vars

(***************************************************************************)
(* A second session of the task's owner (another tab or device) beside the *)
(* session of Spec                                                         *)
(***************************************************************************)
\* updateStatus in the other session, on the document as the store holds it;
\* the write reaches this session's listener
OtherSessionUpdateStatus(id) ==
    /\ id \in DOMAIN store
    /\ LET newStatus == NextStatus(store[id].status)
       IN /\ ~(newStatus = "done" /\ IsReferral(store[id].category))
          /\ store' = updateDoc(store, id, [status |-> newStatus,
                                            completed |-> (newStatus = "done")])
    /\ todos' = IF view = "dashboard" THEN Refresh(store') ELSE todos
    /\ UNCHANGED <<appVars, restVars, nextId, pendingSnap, modalVars, toasts,
                   calVars, formVars, rotaVars, viewVars>>

NextEdit ==
    \/ Next
    \/ \E id \in DOMAIN store : OtherSessionUpdateStatus(id)

SpecEdit == Init /\ [][NextEdit]_vars

(***************************************************************************)
(* Dashboard: the selection of tasks for the printed handover              *)
(***************************************************************************)
\* selectedTasks.includes(id)
isSelected(id) == \E k \in 1..Len(selectedTasks) : selectedTasks[k] = id

\* toggleTaskSelection as the checkbox of a rendered TaskItem calls it
toggleTaskSelection(id) ==
    /\ MainPage
    /\ selectedTasks' = IF isSelected(id)
                        THEN SelectSeq(selectedTasks, LAMBDA tid : tid # id)
                        ELSE Append(selectedTasks, id)
    /\ UNCHANGED <<appVars, restVars, store, nextId, todos, pendingSnap,
                   modalVars, toasts, calVars, formVars, rotaVars, searchQuery,
                   now>>

\* todos.filter(t => selectedTasks.includes(t.id)): what handlePrint hands to
\* handlePrintSelection
tasksToPrint == SelectSeq(todos, LAMBDA t : isSelected(t.id))

\* the bulk action bar's Print Handover button; the bar is rendered while
\* selectedTasks is not empty
handlePrint ==
    /\ MainPage
    /\ Len(selectedTasks) > 0
    /\ IF Len(tasksToPrint) = 0
       THEN UNCHANGED selectedTasks
       ELSE selectedTasks' = <<>>
    /\ UNCHANGED <<appVars, restVars, store, nextId, todos, pendingSnap,
                   modalVars, toasts, calVars, formVars, rotaVars, searchQuery,
                   now>>

\* the bulk action bar's X button
clearSelection ==
    /\ MainPage
    /\ Len(selectedTasks) > 0
    /\ selectedTasks' = <<>>
    /\ UNCHANGED <<appVars, restVars, store, nextId, todos, pendingSnap,
                   modalVars, toasts, calVars, formVars, rotaVars, searchQuery,
                   now>>

\* tasks created in the runs that exercise the selection
MaxSelectable == 2

NextSelect ==
    \/ AuthInit("u1")
    \/ Snapshot
    \/ ToastExpire
    \/ \E c \in Categories : submitForm(MaxSelectable, <<"v", "f">>, <<>>, "medium", c)
    \/ \E i \in 1..Len(todos) : toggleComplete(todos[i])
    \/ \E i \in 1..Len(todos) : TaskItemDelete(todos[i])
    \/ \E k \in 1..Len(toasts) : Undo(k)
    \/ \E i \in 1..Len(todos) : toggleTaskSelection(todos[i].id)
    \/ handlePrint
    \/ clearSelection

SpecSelect == Init /\ [][NextSelect]_vars

(***************************************************************************)
(* Claims about the task handlers (Spec)                                   *)
(***************************************************************************)
Ids == 1..(nextId - 1)

\* C1: after any sequence of addTodo, toggleComplete, updateStatus,
\* handleDrop, confirmReferralCompletion, saveTaskChanges, deleteTodo and
\* Undo, every stored task has completed = TRUE exactly when its status is
\* 'done'.
C1_CompletedAgreesWithStatus ==
    \A id \in DOMAIN store : store[id].completed <=> (store[id].status = "done")

\* a task completed through the safety net and a "Task deleted" toast whose
\* task has been restored
C1_Witness ==
    /\ \E id \in DOMAIN store : store[id].completed /\ store[id].sentVia # ""
    /\ \E k \in 1..Len(toasts) : toasts[k].undoAction[1].id \in DOMAIN store

\* C2: a task whose category is 'Referral' or 'Referrals' is completed only
\* if its sentVia is a delivery method chosen in the Referral Safety Net modal.
C2_CompletedReferralHasSentVia ==
    \A id \in DOMAIN store :
        (IsReferral(store[id].category) /\ store[id].completed)
            => store[id].sentVia \in Methods

\* the three ways of asking for completion
CompletionAttempt(todo) ==
    \/ ~todo.completed /\ toggleComplete(todo)
    \/ NextStatus(todo.status) = "done" /\ updateStatus(todo)
    \/ handleDrop(todo.id, "done")

\* C3 as stated: toggleComplete, updateStatus (next status 'done') or a drop
\* on the Done column on a Referral task writes nothing and opens the safety
\* modal, and Cancel writes nothing.
C3_AsStated ==
    [][/\ \A i \in 1..Len(todos) :
            (/\ IsReferral(todos[i].category)
             /\ \/ toggleComplete(todos[i])
                \/ NextStatus(todos[i].status) = "done" /\ updateStatus(todos[i])
                \/ handleDrop(todos[i].id, "done"))
            => (store' = store /\ isSafetyModalOpen')
       /\ SafetyModalClose => store' = store]_vars

\* C3 (amended): toggleComplete on a task that is not completed, updateStatus
\* (next status 'done') or a drop on the Done column on a Referral task
\* writes nothing to the store and only opens the safety modal for that
\* task; Cancel closes the modal and writes nothing.
C3_AttemptAndCancelWriteNothing ==
    [][/\ \A i \in 1..Len(todos) :
            (IsReferral(todos[i].category) /\ CompletionAttempt(todos[i]))
            => /\ store' = store
               /\ todos' = todos
               /\ isSafetyModalOpen'
               /\ taskToComplete' = <<todos[i].id>>
       /\ SafetyModalClose
            => (store' = store /\ todos' = todos /\ ~isSafetyModalOpen')]_vars

\* the modal is open for a Referral task that is still not completed
C3_Witness ==
    /\ isSafetyModalOpen
    /\ taskToComplete # <<>>
    /\ taskToComplete[1] \in DOMAIN store
    /\ IsReferral(store[taskToComplete[1]].category)
    /\ ~store[taskToComplete[1]].completed
    /\ store[taskToComplete[1]].status = "waiting"

(***************************************************************************)
(* Claims about the auth gate and the listener (SpecAuth)                  *)
(***************************************************************************)
\* C4: the loading screen is shown until the first auth-state callback; from
\* then on the Dashboard is rendered exactly when the current user is
\* non-null and the Login form exactly when it is null.
C4_AuthGate ==
    /\ ~authSeen => (view = "loading" /\ loading)
    /\ authSeen => /\ ~loading
                   /\ (view = "dashboard") <=> (user # NoUser)
                   /\ (view = "login") <=> (user = NoUser)

\* signed out again after a session in which a task was created
C4_Witness == authSeen /\ view = "login" /\ store # << >>

\* C5: after each task snapshot todos holds exactly the documents whose uid
\* is the signed-in user's, one entry per document id, and no task owned by
\* another user ever appears in todos.
C5_TodosHoldOwnTasksOnly ==
    view = "dashboard" =>
        /\ \A i \in 1..Len(todos) : todos[i].uid = user
        /\ \A i, j \in 1..Len(todos) : todos[i].id = todos[j].id => i = j
        /\ ~pendingSnap =>
              {todos[i] : i \in 1..Len(todos)} =
                  {store[id] : id \in {d \in DOMAIN store : store[d].uid = user}}

\* the steps that call deleteTodo(id)
DeleteStep(id) ==
    \/ \E i \in 1..Len(todos) : todos[i].id = id /\ TaskItemDelete(todos[i])
    \/ editTask = <<id>> /\ EditDelete

\* C6: deleteTodo(id) on a task present in todos removes it from the store
\* and shows a toast with an Undo action holding the task; that Undo puts a
\* document with the same id and the same fields back; deleteTodo on an id
\* not present in todos changes neither the store, todos nor the toasts.
C6_DeleteUndoRoundTrip ==
    [][/\ \A id \in Ids :
            (DeleteStep(id) /\ FindTodo(id) # <<>>)
            => /\ id \notin DOMAIN store'
               /\ \A d \in DOMAIN store' : d \in DOMAIN store /\ store'[d] = store[d]
               /\ Len(toasts') = Len(toasts) + 1
               /\ toasts'[Len(toasts')].undoAction =
                      <<[id |-> id, taskToDelete |-> FindTodo(id)[1]]>>
               /\ ~pendingSnap => FindTodo(id)[1] = store[id]
       /\ \A id \in Ids :
            (DeleteStep(id) /\ FindTodo(id) = <<>>)
            => (store' = store /\ todos' = todos /\ toasts' = toasts)
       /\ \A k \in 1..Len(toasts) :
            Undo(k) => LET u == toasts[k].undoAction[1]
                       IN /\ u.id \in DOMAIN store'
                          /\ store'[u.id] = u.taskToDelete
                          /\ store'[u.id].id = u.id
                          /\ \A d \in DOMAIN store' \ {u.id} :
                                d \in DOMAIN store /\ store'[d] = store[d]]_vars

\* a completed task was deleted and its Undo has put it back
C6_Witness ==
    \E k \in 1..Len(toasts) :
        LET u == toasts[k].undoAction[1]
        IN /\ u.id \in DOMAIN store
           /\ store[u.id] = u.taskToDelete
           /\ u.taskToDelete.completed

(***************************************************************************)
(* Claims about getShiftEndTime (SpecShift)                                *)
(***************************************************************************)
\* the calendar week (Monday-based) a date lies in
WeekOf(d) == d \div 7

\* whole calendar weeks from the anchor's week (the current week when there
\* is no anchor) to the week of the date dueTime was computed for
WeeksFromAnchor ==
    WeekOf(shiftDate) - WeekOf(IF anchorDate # NoDate THEN anchorDate ELSE today)

\* the end time a week gives for a weekday
EndTimeIn(week, day) ==
    LET entry == IF day \in DOMAIN week THEN week[day] ELSE DEFAULT_WEEK.monday
    IN IF entry.isOff THEN "17:30" ELSE entry.end

\* C7: for a non-empty rota list of length n and w calendar weeks between
\* the anchor's week and the target's week (negative when the target comes
\* first), getShiftEndTime reads rotas[w mod n], the index lying in 0..n-1;
\* two dates exactly n weeks apart give the same result.
C7_CycleIndexWraps ==
    (shiftDate # NoDate /\ rotas # <<>>) =>
        LET n == Len(rotas)
            w == WeeksFromAnchor
        IN /\ weeksPassedOf(shiftDate, anchorDate) = w
           /\ cycleIndex(w, n) = w % n
           /\ cycleIndex(w, n) \in 0..(n - 1)
           /\ dueTime = EndTimeIn(rotas[(w % n) + 1], DayNames[(shiftDate % 7) + 1])
           /\ \A d \in Dates :
                 (d = shiftDate + 7 * n \/ d = shiftDate - 7 * n)
                     => getShiftEndTime(d, rotas, anchorDate) = dueTime

\* a deadline set in a week before the anchor's, an odd number of weeks away,
\* in a rota whose weeks differ
C7_Witness ==
    /\ shiftDate # NoDate
    /\ Len(rotas) >= 2
    /\ rotas[1] # rotas[2]
    /\ WeeksFromAnchor < 0
    /\ WeeksFromAnchor % Len(rotas) # 0
    /\ shiftDate + 7 * Len(rotas) \in Dates
    /\ dueTime # "17:30"

\* C8: getShiftEndTime returns '17:30' for an empty rota list and for a
\* weekday the selected week marks as off; otherwise the weekday's end time,
\* that of the default Monday when the week has no entry for the weekday;
\* with no anchor date a date of the current week is read in rotas[0].
C8_ShiftEndTime ==
    shiftDate # NoDate =>
        LET day == DayNames[(shiftDate % 7) + 1]
            week == rotas[(WeeksFromAnchor % Len(rotas)) + 1]
        IN /\ rotas = <<>> => dueTime = "17:30"
           /\ rotas # <<>> =>
                 /\ (day \in DOMAIN week /\ week[day].isOff) => dueTime = "17:30"
                 /\ (day \in DOMAIN week /\ ~week[day].isOff) => dueTime = week[day].end
                 /\ day \notin DOMAIN week => dueTime = DEFAULT_WEEK.monday.end
                 /\ (anchorDate = NoDate /\ WeekOf(shiftDate) = WeekOf(today))
                       => dueTime = EndTimeIn(rotas[1], day)

\* End of Day applied to an off day whose entry holds another end time, in
\* the second week of a rota
C8_Witness ==
    /\ shiftDate # NoDate
    /\ Len(rotas) >= 2
    /\ WeeksFromAnchor % Len(rotas) = 1
    /\ LET day == DayNames[(shiftDate % 7) + 1]
           week == rotas[2]
       IN /\ day \in DOMAIN week
          /\ week[day].isOff
          /\ week[day].end # "17:30"
    /\ dueTime = "17:30"

(***************************************************************************)
(* Claims about groupedTodos (SpecGroup)                                   *)
(***************************************************************************)
ListBuckets == {"overdue", "soon", "later", "completed"}

BoardColumns == {"todo", "inProgress", "waiting", "done"}

\* how many times a task is held by a bucket
Occurrences(bucket, id) == Cardinality({k \in 1..Len(bucket) : bucket[k].id = id})

IdsIn(bucket) == {bucket[k].id : k \in 1..Len(bucket)}

\* the due instant of a task: dueDate at dueTime, or at 23:59:59
DueOf(t) ==
    t.dueDate * 86400 +
        (IF t.dueTime = "" THEN 86399
         ELSE splitTime(t.dueTime)[1] * 3600 + splitTime(t.dueTime)[2] * 60)

\* the list bucket the rules give a task
BucketOf(t) ==
    IF t.completed \/ t.status = "done" THEN "completed"
    ELSE IF t.dueDate = NoDate THEN "later"
    ELSE IF DueOf(t) < now THEN "overdue"
    ELSE IF DueOf(t) < now + 86400 THEN "soon"
    ELSE "later"

\* C9: each task passing the search filter is in exactly one list bucket:
\* completed if completed or status 'done'; else later without a due date;
\* else overdue if due < now; else soon if due < now + 24h; else later, due
\* being dueDate at dueTime or at 23:59:59.  A task failing the filter is in
\* no bucket.
C9_ListBuckets ==
    LET g == groupedTodos(todos, searchQuery, now)
    IN \A i \in 1..Len(todos) : \A b \in ListBuckets :
          Occurrences(g.list[b], todos[i].id) =
              IF matchesSearch(todos[i], searchQuery) /\ b = BucketOf(todos[i])
              THEN 1 ELSE 0

\* a search is typed, and the task it shows, due today without a due time, is
\* "soon" once the day has begun
C9_Witness ==
    LET g == groupedTodos(todos, searchQuery, now)
    IN /\ searchQuery # <<>>
       /\ \E k \in 1..Len(g.list.soon) :
             /\ g.list.soon[k].dueTime = ""
             /\ now > g.list.soon[k].dueDate * 86400
             /\ g.list.soon[k].dueDate = today

\* C10: each filtered task is in exactly one board column, a missing status
\* counting as 'todo'; a task is in the done column exactly when it is in the
\* completed bucket, and the columns hold the same tasks as the buckets.
C10_BoardColumns ==
    LET g == groupedTodos(todos, searchQuery, now)
    IN /\ \A i \in 1..Len(todos) :
             LET t == todos[i]
                 n == Cardinality({c \in BoardColumns :
                                      Occurrences(g.board[c], t.id) > 0})
             IN /\ \A c \in BoardColumns : Occurrences(g.board[c], t.id) <= 1
                /\ n = IF matchesSearch(t, searchQuery) THEN 1 ELSE 0
                /\ (n = 1 /\ t.status = "" /\ ~t.completed)
                       => Occurrences(g.board.todo, t.id) = 1
                /\ (n = 1 /\ t.status \in {"todo", "waiting"} /\ ~t.completed)
                       => Occurrences(g.board[t.status], t.id) = 1
                /\ (n = 1 /\ t.status = "in-progress" /\ ~t.completed)
                       => Occurrences(g.board.inProgress, t.id) = 1
       /\ IdsIn(g.board.done) = IdsIn(g.list.completed)
       /\ UNION {IdsIn(g.board[c]) : c \in BoardColumns} =
              UNION {IdsIn(g.list[b]) : b \in ListBuckets}

\* a search is typed that shows a task marked completed whose status is still
\* 'in-progress': it is in the done column
C10_Witness ==
    LET g == groupedTodos(todos, searchQuery, now)
    IN /\ searchQuery # <<>>
       /\ \E k \in 1..Len(g.board.done) :
             /\ g.board.done[k].completed
             /\ g.board.done[k].status = "in-progress"

(***************************************************************************)
(* Claims about the add form (SpecForm)                                    *)
(***************************************************************************)
\* C11: when the description field's new value ends with a space and its
\* last space-separated word equals the trigger of a configured slash
\* command, the stored value is the text preceding that word, followed by
\* the command's expansion and one space; otherwise the stored value is the
\* value as typed.
C11_SlashExpansion ==
    [][\A val \in InputValues :
          handleInputChange(val) =>
              LET RECURSIVE stripRight(_)
                  stripRight(str) ==
                      IF str # <<>> /\ str[Len(str)] = " "
                      THEN stripRight(SubSeq(str, 1, Len(str) - 1))
                      ELSE str
                  word == lastOfSplit(stripRight(val))
                  before == SubSeq(val, 1, Len(stripRight(val)) - Len(word))
                  hit == findCommand(slashCommands, word)
              IN input' = IF endsWith(val, " ") /\ hit # <<>>
                          THEN before \o hit[1].expansion \o <<" ">>
                          ELSE val]_vars

\* C12: a submission stores a task only when the description or the patient
\* name is not blank after trimming; it then stores exactly one task, not
\* completed, with status 'todo' and the form's priority, category, due date
\* and due time, clears the description, the patient name, the due date and
\* the due time, and keeps the selected category and priority.
C12_AddTodo ==
    [][store' # store =>
          /\ ~(trim(input) = <<>> /\ trim(patientInput) = <<>>)
          /\ DOMAIN store' = DOMAIN store \cup {nextId}
          /\ nextId \notin DOMAIN store
          /\ \A id \in DOMAIN store : store'[id] = store[id]
          /\ store'[nextId].completed = FALSE
          /\ store'[nextId].status = "todo"
          /\ store'[nextId].priority = priority
          /\ store'[nextId].category = category
          /\ store'[nextId].dueDate = dueDate
          /\ store'[nextId].dueTime = dueTime
          /\ store'[nextId].text = input
          /\ store'[nextId].patientName = patientInput
          /\ input' = <<>> /\ patientInput' = <<>>
          /\ dueDate' = NoDate /\ dueTime' = ""
          /\ category' = category /\ priority' = priority]_vars

C12_Witness ==
    /\ \E id \in DOMAIN store :
          /\ store[id].category = "Referral"
          /\ store[id].priority = "high"
          /\ store[id].dueDate # NoDate
          /\ store[id].text = <<>>
    /\ input = <<>> /\ dueDate = NoDate
    /\ category = "Referral" /\ priority = "high"

(***************************************************************************)
(* Claims about the external calendars (SpecCal)                           *)
(***************************************************************************)
\* C13: no operation of the app modifies the events of the user's Google or
\* Outlook calendars: a step in which a calendar changes is a step of its
\* owner elsewhere, in which the app does nothing, and what a load puts in
\* googleEvents or outlookEvents is what it read from the calendar.
C13_CalendarsOnlyRead ==
    [][/\ (googleCalendar' # googleCalendar \/ outlookCalendars' # outlookCalendars)
             => UNCHANGED <<appVars, calVars, extVars, localStorage, urlVars>>
       /\ googleEvents' # googleEvents =>
             \/ googleEvents' = <<>>
             \/ /\ googleCalendar' = googleCalendar
                /\ Len(googleEvents') = Len(googleCalendar)
                /\ \A i \in 1..Len(googleCalendar) :
                      googleEvents'[i].id = googleCalendar[i]
       /\ outlookEvents' # outlookEvents =>
             \/ outlookEvents' = <<>>
             \/ /\ outlookCalendars' = outlookCalendars
                /\ \A i \in 1..Len(outlookEvents') :
                      \E c \in 1..Len(outlookCalendars) :
                         \E k \in 1..Len(outlookCalendars[c].events) :
                            outlookEvents'[i].id = outlookCalendars[c].events[k]]_vars

C13_Witness ==
    /\ googleConnected /\ googleEvents # <<>>
    /\ outlookConnected /\ outlookEvents # <<>>
    /\ googleCalendar = <<"g1">>
    /\ outlookCalendars # <<>>

\* C20: after handleDisconnectCalendar for a source, that source's events
\* stay empty and its connected flag stays false until the user connects it
\* again, also when a load that started before the disconnect completes
\* after it.  (The disconnect removes the source's stored token or intent,
\* and only connecting stores it again.)
C20_DisconnectedStaysEmpty ==
    view = "dashboard" =>
       /\ getItem(localStorage, "google_token", user) = <<>>
             => googleEvents = <<>> /\ ~googleConnected
       /\ getItem(localStorage, "outlook_connected", user) = <<>>
             => outlookEvents = <<>> /\ ~outlookConnected

(***************************************************************************)
(* Claims about the settings (SpecSettings)                                *)
(***************************************************************************)
\* C14: saveRotas, handleSaveCategories and saveAutomationSettings each
\* write only their own fields of the signed-in user's users document
\* (rotas and anchorDate; categories; slashCommands and referralMethods):
\* every other field of that document, and every other document, keeps its
\* value.
C14_SavesMergeOwnFields ==
    [][\A own \in {{"rotas", "anchorDate"}, {"categories"},
                   {"slashCommands", "referralMethods"}} :
          (\/ /\ own = {"rotas", "anchorDate"}
              /\ \E rs \in RotaSystems, sel \in 0..(MaxRotaWeeks - 1) :
                    saveRotas(rs, sel)
           \/ /\ own = {"categories"}
              /\ \E cs \in CategoryLists : handleSaveCategories(cs)
           \/ /\ own = {"slashCommands", "referralMethods"}
              /\ \E sl \in SlashLists, rl \in ReferralLists :
                    saveAutomationSettings(sl, rl))
          => /\ DOMAIN userDocs' = DOMAIN userDocs \cup {user}
             /\ \A u \in DOMAIN userDocs \ {user} : userDocs'[u] = userDocs[u]
             /\ own \subseteq DOMAIN userDocs'[user]
             /\ user \in DOMAIN userDocs =>
                   /\ DOMAIN userDocs'[user] = DOMAIN userDocs[user] \cup own
                   /\ \A f \in DOMAIN userDocs[user] \ own :
                         userDocs'[user][f] = userDocs[user][f]
             /\ user \notin DOMAIN userDocs => DOMAIN userDocs'[user] = own]_vars

C14_Witness ==
    /\ user \in DOMAIN userDocs
    /\ {"fullName", "schedule", "rotas", "anchorDate", "categories",
        "slashCommands", "referralMethods"} \subseteq DOMAIN userDocs[user]
    /\ userDocs[user].fullName = "Ann"
    /\ Len(userDocs[user].rotas) = 2
    /\ userDocs[user].categories = <<"Referral", "General">>
    /\ Len(userDocs[user].slashCommands) = 1

(***************************************************************************)
(* Claims about the Login form (SpecLogin)                                 *)
(***************************************************************************)
\* C15: createUserWithEmailAndPassword and confirmPasswordReset are only
\* called with a password that, at the moment of submission, has at least
\* 10 characters, an uppercase letter, a lowercase letter, a digit and a
\* special character, and equals the confirmation field, whatever mode
\* switches and edits came before.
C15_OnlyStrongPasswordsSubmitted ==
    (authRequest # <<>> /\ authRequest[1].kind \in {"signup", "reset"}) =>
        LET p == authRequest[1].password
        IN /\ Len(p) >= 10
           /\ \E i \in 1..Len(p) : p[i] \in UpperChars
           /\ \E i \in 1..Len(p) : p[i] \in LowerChars
           /\ \E i \in 1..Len(p) : p[i] \in DigitChars
           /\ \E i \in 1..Len(p) : p[i] \in SpecialChars
           /\ p = authRequest[1].confirmPassword

\* C16: when a handleEmailAuth submission finishes with an error, in any
\* mode, loading is false again; and when the timer of a successful reset
\* has returned the form to sign-in mode, the submit button is usable
\* (loading is false).
C16_LoadingReturnsToFalse ==
    [][/\ ((handleEmailAuth /\ authRequest' = <<>>) \/ AuthFailed)
             => ~loginLoading'
       /\ ResetRedirect => (mode' = "signin" /\ ~loginLoading')]_vars

C18_SortOrder ==
    /\ \A a, b, c \in {store[id] : id \in DOMAIN store} :
          (compare(a, b) < 0 /\ compare(b, c) < 0) => compare(a, c) < 0
    /\ ~pendingSnap =>
          \A i, j \in 1..Len(todos) :
             /\ (todos[i].priority = "high" /\ ~todos[i].completed
                    /\ todos[j].priority # "high") => i < j
             /\ (i < j /\ ~(todos[i].priority = "high" /\ ~todos[i].completed)
                       /\ ~(todos[j].priority = "high" /\ ~todos[j].completed))
                   => todos[i].createdAt >= todos[j].createdAt

(***************************************************************************)
(* Claims about the edit modal beside another session (SpecEdit)           *)
(***************************************************************************)
\* C19: saving from the edit modal, which has no control for them, leaves
\* the task's completed, status and sentVia as the store holds them: it does
\* not revert what another action or session changed after the modal was
\* opened.
C19_EditSaveKeepsCompletion ==
    [][(EditSave /\ editTask[1] \in DOMAIN store) =>
          /\ store'[editTask[1]].completed = store[editTask[1]].completed
          /\ store'[editTask[1]].status = store[editTask[1]].status
          /\ store'[editTask[1]].sentVia = store[editTask[1]].sentVia]_vars

(***************************************************************************)
(* Claims about the Outlook calendars' selection and session (SpecCal)     *)
(***************************************************************************)
\* C21: once no loadOutlookData call is in flight, every event in
\* outlookEvents comes from an Outlook calendar whose isActive flag is
\* currently true, whatever toggleCalendar calls came before and whatever
\* order the overlapping loads finished in.  (Stated for an account that
\* was not disconnected: its stored intent is still there.)
C21_EventsOfActiveCalendars ==
    (/\ view = "dashboard"
     /\ getItem(localStorage, "outlook_connected", user) # <<>>
     /\ outlookLoads = {}) =>
        \A i \in 1..Len(outlookEvents) :
           \E k \in 1..Len(externalCalendars) :
              /\ externalCalendars[k].source = "outlook"
              /\ externalCalendars[k].id = outlookEvents[i].calendarName
              /\ externalCalendars[k].isActive

\* C22: in every state outlookExpired implies outlookConnected: the
\* "session expired" state is only shown for a connected Outlook account,
\* across the startup effect, the outcomes of loadOutlookData, the OAuth
\* redirect and handleDisconnectCalendar.
C22_ExpiredImpliesConnected == outlookExpired => outlookConnected

C22_Witness ==
    /\ view = "dashboard"
    /\ outlookExpired /\ outlookConnected
    /\ outlookLoads = {}
    /\ getItem(localStorage, "outlook_token", user) # <<>>

(***************************************************************************)
(* Claims about the selection for the printed handover (SpecSelect)        *)
(***************************************************************************)
\* C23: in every reachable state every id in selectedTasks is the id of a
\* task currently in todos and appears at most once, so the "N selected"
\* count equals the number of tasks handlePrint would print, after any
\* sequence of toggleTaskSelection, deleteTodo, Undo, handlePrint and task
\* snapshots.
C23_SelectionWithinTodos ==
    /\ \A k \in 1..Len(selectedTasks) : FindTodo(selectedTasks[k]) # <<>>
    /\ \A j, k \in 1..Len(selectedTasks) :
          selectedTasks[j] = selectedTasks[k] => j = k
    /\ Len(selectedTasks) = Len(tasksToPrint)

====
